---- MODULE Spec2Model ----
(***************************************************************************)
(* A model of the maestro load generator: the PhaseManager, the            *)
(* RateLimiter, the Coordinator's profile run and classic spawn with       *)
(* their executors, the HTTP workflow's iteration over its steps, the      *)
(* Runner, the Collector, and main with its thresholds and exit code.      *)
(*                                                                         *)
(* Time is counted in scheduling ticks (phaseTickInterval, 100 ms).        *)
(* Each subsystem has its own specification over the shared variables;     *)
(* the variables a specification does not use keep their initial value.    *)
(***************************************************************************)
EXTENDS Integers, Sequences, FiniteSets, TLC

VARIABLES
    phases,      \* PhaseManager.phases: the profile's phase list
    now,         \* the clock: time elapsed since PhaseManager.startTime
    ta,          \* the running TargetActors() call: position and locals
    ctxDone,     \* the scope (context) has been cancelled
    lim,         \* RateLimiter.limiter: the token bucket's limit, burst and tokens
    setRate,     \* the supervisor's SetRate call: position and argument
    wt,          \* per executor, its RateLimiter.Wait call: position, locals, result
    win,         \* an observation window on the limiter: permits and token times counted
    config,      \* the core.RunnerConfig of the profile run
    sup,         \* RunWithProfileConfig, the supervisor: "running" or "returned"
    nextID,      \* Coordinator.nextID
    wg,          \* Coordinator.wg, the WaitGroup's counter
    activeCount, \* Coordinator.activeCount
    stopChans,   \* Coordinator.stopChans: each channel named by its executor's id
    closed,      \* the stop channels that have been closed
    actors,      \* per executor id, the goroutine: position, locals, why it left
    waitPc,      \* the caller's Coordinator.Wait() after the profile run
    steps,       \* Workflow.Config.Steps: each step's placeholders and extract rules
    wf,          \* one Workflow.Run call: position, loop index, variables, Events reported
    runner,      \* one core.Runner and its driver: config, iteration, position, calls made
    spawnCount,  \* the count argument of the classic Spawn / SpawnWithConfig call
    coll,        \* the Collector: ch, its closing, the event log, the consumer goroutine
    prod,        \* per producer, its Collector.Report call: position, event, outcome
    closer,      \* the caller of Collector.Close(): position, calls made, outcome
    rlog,        \* the Report calls made so far: events issued, queued, shed
    mn,          \* main and its signal goroutine: positions, interrupted, verdict, exit code
    sp           \* the callers that spawn executors: positions, ids obtained, ids handed out

phaseVars == <<phases, now, ta>>

limiterVars == <<lim, setRate, wt, win>>

coordVars == <<config, sup, nextID, wg, activeCount, stopChans, closed, actors, waitPc>>

workflowVars == <<steps, wf>>

runnerVars == <<runner>>

collectorVars == <<coll, prod, closer, rlog>>

callerVars == <<spawnCount, mn, sp>>

restVars == <<runnerVars, collectorVars>>

vars == <<phases, now, ta, ctxDone, lim, setRate, wt, win,
          config, sup, nextID, wg, activeCount, stopChans, closed, actors, waitPc,
          steps, wf, runner, spawnCount, coll, prod, closer, rlog, mn, sp>>

----------------------------------------------------------------------------
(* Bounds of the model *)

MaxPhases == 2
MaxVars == 1
MaxDuration == 2
MaxActors == 1
MaxRate == 2
NumWaiters == 2
MaxTarget == 2
MaxSpawn == 3
NumSteps == 2
MaxIterations == 1
MaxRunnerIters == 2
MaxWarmup == 2
MaxCount == 2
NumProducers == 2
QueueCap == 1
MaxReports == 4
MaxCloses == 2
MaxWindow == 2
MaxLatency == 1
MaxPercent == 1
NumSpawners == 2

----------------------------------------------------------------------------
(* Arithmetic helpers *)

Max(a, b) == IF a >= b THEN a ELSE b

Min(a, b) == IF a <= b THEN a ELSE b

Abs(a) == IF a >= 0 THEN a ELSE -a

\* Go's int(x) conversion of a float: the fraction is discarded, rounding
\* toward zero.  The quotient num/den (den > 0) is taken exactly.
TruncDiv(num, den) == IF num >= 0 THEN num \div den ELSE -((-num) \div den)

----------------------------------------------------------------------------
(* config.Phase and the profiles the model draws from *)

Phase(d, a, s, e, r) ==
    [Duration |-> d, Actors |-> a, StartActors |-> s, EndActors |-> e, RPS |-> r]

\* A steady phase sets actors; a ramp phase sets startActors and endActors.
PhaseSet ==
    { Phase(d, a, 0, 0, 0) : d \in 1..MaxDuration, a \in 0..MaxActors }
    \cup
    { Phase(pr[1], 0, pr[2], pr[3], 0) :
        pr \in { q \in (1..MaxDuration) \X (0..MaxActors) \X (0..MaxActors) : q[2] # q[3] } }

ProfileSet == UNION { [1..n -> PhaseSet] : n \in 1..MaxPhases }

RECURSIVE SumDurations(_, _)
\* The sum of the durations of the first n phases.
SumDurations(ps, n) ==
    IF n = 0 THEN 0 ELSE SumDurations(ps, n - 1) + ps[n].Duration

TotalDuration(ps) == SumDurations(ps, Len(ps))

----------------------------------------------------------------------------
(* PhaseManager: the read-only queries, each evaluated on one clock read t. *)
(* Phase indices are 0-based as in the source; ps[i + 1] is phase i.        *)

CurrentPhaseIndex(ps, t) ==
    IF \E i \in 1..Len(ps) : t < SumDurations(ps, i)
    THEN (CHOOSE i \in 1..Len(ps) :
            /\ t < SumDurations(ps, i)
            /\ \A j \in 1..(i - 1) : ~(t < SumDurations(ps, j))) - 1
    ELSE Len(ps)

IsComplete(ps, t) == CurrentPhaseIndex(ps, t) >= Len(ps)

\* A phase without a rate keeping the rate of the nearest earlier phase.
CurrentRPSInherited(ps, t) ==
    LET i == CurrentPhaseIndex(ps, t) + 1
        set == { j \in 1..Len(ps) : j <= i /\ ps[j].RPS > 0 }
    IN  IF i > Len(ps) \/ set = {} THEN 0
        ELSE ps[CHOOSE j \in set : \A k \in set : k <= j].RPS

\* CurrentRPS(): the RPS of the current phase, 0 once the profile is over.
CurrentRPS(ps, t) ==
    IF CurrentPhaseIndex(ps, t) >= Len(ps) THEN 0
    ELSE ps[CurrentPhaseIndex(ps, t) + 1].RPS

\* float64(phaseElapsed) / float64(phase.Duration), clamped from above only,
\* times delta, converted with int(): start + int(delta * progress).
RampTargetFloor(p, phaseElapsed) ==
    LET delta == p.EndActors - p.StartActors
    IN  IF phaseElapsed > p.Duration
        THEN p.StartActors + delta
        ELSE p.StartActors + ((delta * phaseElapsed) \div p.Duration)

RampTarget(p, phaseElapsed) ==
    LET delta == p.EndActors - p.StartActors
    IN  IF phaseElapsed > p.Duration
        THEN p.StartActors + delta
        ELSE p.StartActors + TruncDiv(delta * phaseElapsed, p.Duration)

\* A TargetActors() that ramps every phase: a steady phase climbs from 0 to
\* its actors.
TargetActorsAllRamped(ps, t) ==
    LET idx == CurrentPhaseIndex(ps, t)
    IN  IF idx >= Len(ps) THEN 0
        ELSE LET p == ps[idx + 1]
             IN  IF p.Actors > 0
                 THEN TruncDiv(p.Actors * (t - SumDurations(ps, idx)), p.Duration)
                 ELSE IF p.StartActors = p.EndActors THEN p.StartActors
                 ELSE RampTarget(p, t - SumDurations(ps, idx))

\* TargetActors() when every clock read of the call returns the same t.
TargetActorsAt(ps, t) ==
    LET idx == CurrentPhaseIndex(ps, t)
    IN  IF idx >= Len(ps) THEN 0
        ELSE LET p == ps[idx + 1]
             IN  IF p.Actors > 0 THEN p.Actors
                 ELSE IF p.StartActors = p.EndActors THEN p.StartActors
                 ELSE RampTarget(p, t - SumDurations(ps, idx))

----------------------------------------------------------------------------
(* PhaseManager.TargetActors() step by step.  The call reads the clock at   *)
(* CurrentPhase(), at Elapsed() and in every test of the phaseStart loop,   *)
(* and the clock may advance between any two reads.                         *)

NoPhase == -1

TaIdle ==
    [pc |-> "idle", phase |-> NoPhase, elapsed |-> 0, i |-> 0, phaseStart |-> 0,
     result |-> 0]

\* The latest clock value the model lets a call observe.
MaxTime(ps) == TotalDuration(ps) + 1

ClockAdvance ==
    /\ now < MaxTime(phases)
    /\ now' = now + 1
    /\ UNCHANGED <<callerVars, restVars, workflowVars, phases, ta, ctxDone, limiterVars, coordVars>>

\* phase := pm.CurrentPhase() and the three early returns.
TA_CurrentPhase ==
    /\ ta.pc = "idle"
    /\ LET idx == CurrentPhaseIndex(phases, now)
           base == TaIdle
       IN  IF idx >= Len(phases)
           THEN ta' = [base EXCEPT !.pc = "ret", !.result = 0]
           ELSE LET p == phases[idx + 1]
                IN  IF p.Actors > 0
                    THEN ta' = [base EXCEPT !.pc = "ret", !.phase = idx, !.result = p.Actors]
                    ELSE IF p.StartActors = p.EndActors
                    THEN ta' = [base EXCEPT !.pc = "ret", !.phase = idx,
                                            !.result = p.StartActors]
                    ELSE ta' = [base EXCEPT !.pc = "elapsed", !.phase = idx]
    /\ UNCHANGED <<callerVars, restVars, workflowVars, phases, now, ctxDone, limiterVars, coordVars>>

\* elapsed := pm.Elapsed()
TA_Elapsed ==
    /\ ta.pc = "elapsed"
    /\ ta' = [ta EXCEPT !.pc = "loop", !.elapsed = now]
    /\ UNCHANGED <<callerVars, restVars, workflowVars, phases, now, ctxDone, limiterVars, coordVars>>

\* for i := 0; i < pm.CurrentPhaseIndex(); i++ { phaseStart += phases[i].Duration }
\* One test of the loop condition, and the body when it holds.
TA_Loop ==
    /\ ta.pc = "loop"
    /\ LET idx == CurrentPhaseIndex(phases, now)
       IN  IF ta.i < idx
           THEN ta' = [ta EXCEPT !.i = ta.i + 1,
                                 !.phaseStart = ta.phaseStart + phases[ta.i + 1].Duration]
           ELSE ta' = [ta EXCEPT !.pc = "compute"]
    /\ UNCHANGED <<callerVars, restVars, workflowVars, phases, now, ctxDone, limiterVars, coordVars>>

\* phaseElapsed, progress, delta and the returned value.
TA_Compute ==
    /\ ta.pc = "compute"
    /\ ta' = [ta EXCEPT !.pc = "ret",
                        !.result = RampTarget(phases[ta.phase + 1],
                                              ta.elapsed - ta.phaseStart)]
    /\ UNCHANGED <<callerVars, restVars, workflowVars, phases, now, ctxDone, limiterVars, coordVars>>

\* The caller takes the result; the next call may start.
TA_Return ==
    /\ ta.pc = "ret"
    /\ ta' = TaIdle
    /\ UNCHANGED <<callerVars, restVars, workflowVars, phases, now, ctxDone, limiterVars, coordVars>>

----------------------------------------------------------------------------
(* RateLimiter: a rate.Limiter behind a read-write mutex.                   *)
(*                                                                          *)
(* The token bucket holds limit (tokens per second), burst (bucket size)    *)
(* and tokens.  A reservation takes one token; with none left the caller    *)
(* sleeps until the bucket has refilled the tokens reserved before its own  *)
(* (need counts them).  Refill is the passing of one token's time.          *)

Waiters == 1..NumWaiters

WtIdle == [pc |-> "idle", need |-> 0, res |-> "none"]

\* No window is being observed.  An open window counts the permits that fall
\* due in it (a permit granted at once, or the permit of a sleeping caller at
\* the time its timer is set for) and the token times that pass in it.
WinClosed == [open |-> FALSE, grants |-> 0, refills |-> 0]

\* A limiter made with twice the burst.
NewRateLimiterDoubleBurst(rps) == [limit |-> rps, burst |-> 2 * rps, tokens |-> 2 * rps]

\* NewRateLimiter(rps): rate.NewLimiter(rate.Limit(rps), rps), the bucket full.
NewRateLimiter(rps) == [limit |-> rps, burst |-> rps, tokens |-> rps]

\* An executor enters RateLimiter.Wait.
W_Call(e) ==
    /\ wt[e].pc = "idle"
    /\ wt' = [wt EXCEPT ![e] = [WtIdle EXCEPT !.pc = "read"]]
    /\ UNCHANGED <<callerVars, restVars, workflowVars, phaseVars, ctxDone, lim, setRate, win, coordVars>>

\* RLock; limit := limiter.Limit(); RUnlock; if limit == 0 { return nil }.
\* The read lock is not granted while SetRate holds the write lock.
W_ReadLimit(e) ==
    /\ wt[e].pc = "read"
    /\ setRate.pc = "idle"
    /\ wt' = [wt EXCEPT ![e] = IF lim.limit = 0
                               THEN [@ EXCEPT !.pc = "done", !.res = "nil"]
                               ELSE [@ EXCEPT !.pc = "enter"]]
    /\ UNCHANGED <<callerVars, restVars, workflowVars, phaseVars, ctxDone, lim, setRate, win, coordVars>>

\* limiter.Wait(ctx), entry: one token must fit the burst (the limit is never
\* rate.Inf here), and the context must not be done already.
W_Enter(e) ==
    /\ wt[e].pc = "enter"
    /\ wt' = [wt EXCEPT ![e] = IF lim.burst < 1
                               THEN [@ EXCEPT !.pc = "done", !.res = "errBurst"]
                               ELSE IF ctxDone
                               THEN [@ EXCEPT !.pc = "done", !.res = "errCtx"]
                               ELSE [@ EXCEPT !.pc = "reserve"]]
    /\ UNCHANGED <<callerVars, restVars, workflowVars, phaseVars, ctxDone, lim, setRate, win, coordVars>>

\* limiter.Wait(ctx), the reservation of one token.
W_Reserve(e) ==
    /\ wt[e].pc = "reserve"
    /\ IF lim.burst < 1
       THEN /\ wt' = [wt EXCEPT ![e] = [@ EXCEPT !.pc = "done", !.res = "errReserve"]]
            /\ lim' = lim
       ELSE IF lim.limit = 0
       THEN /\ wt' = [wt EXCEPT ![e] = [@ EXCEPT !.pc = "done", !.res = "nil"]]
            /\ lim' = [lim EXCEPT !.burst = lim.burst - 1]
       ELSE IF lim.tokens >= 1
       THEN /\ wt' = [wt EXCEPT ![e] = [@ EXCEPT !.pc = "done", !.res = "nil"]]
            /\ lim' = [lim EXCEPT !.tokens = lim.tokens - 1]
       ELSE /\ wt' = [wt EXCEPT ![e] = [@ EXCEPT !.pc = "sleep",
                                                 !.need = 1 - lim.tokens]]
            /\ lim' = [lim EXCEPT !.tokens = lim.tokens - 1]
    /\ win' = IF win.open /\ lim.burst >= 1 /\ lim.limit > 0 /\ lim.tokens >= 1
              THEN [win EXCEPT !.grants = @ + 1]
              ELSE win
    /\ UNCHANGED <<callerVars, restVars, workflowVars, phaseVars, ctxDone, setRate, coordVars>>

\* limiter.Wait(ctx), the timer of the reservation fires.
W_Timer(e) ==
    /\ wt[e].pc = "sleep"
    /\ wt[e].need = 0
    /\ wt' = [wt EXCEPT ![e] = [@ EXCEPT !.pc = "done", !.res = "nil"]]
    /\ UNCHANGED <<callerVars, restVars, workflowVars, phaseVars, ctxDone, lim, setRate, win, coordVars>>

\* limiter.Wait(ctx), the context is done before the caller has returned on
\* its timer: the reservation is cancelled.  Its token is given back only if
\* the reservation is not yet due and no reservation was made after it (it
\* is the one the bucket's debt ends with).
W_Cancelled(e) ==
    /\ wt[e].pc = "sleep"
    /\ ctxDone
    /\ wt' = [wt EXCEPT ![e] = [@ EXCEPT !.pc = "done", !.need = 0, !.res = "errCtx"]]
    /\ lim' = IF wt[e].need > 0 /\ wt[e].need = -lim.tokens
              THEN [lim EXCEPT !.tokens = Min(lim.tokens + 1, lim.burst)]
              ELSE lim
    /\ UNCHANGED <<callerVars, restVars, workflowVars, phaseVars, ctxDone, setRate, win, coordVars>>

\* The caller takes the result of Wait.
W_Return(e) ==
    /\ wt[e].pc = "done"
    /\ wt' = [wt EXCEPT ![e] = WtIdle]
    /\ UNCHANGED <<callerVars, restVars, workflowVars, phaseVars, ctxDone, lim, setRate, win, coordVars>>

\* The time of one token passes: the bucket gains a token, up to its burst,
\* and every sleeping reservation is one token nearer.
Refill ==
    /\ lim.limit > 0
    /\ lim.tokens < lim.burst
    /\ lim' = [lim EXCEPT !.tokens = lim.tokens + 1]
    /\ wt' = [e \in Waiters |->
                IF wt[e].pc = "sleep" /\ wt[e].need > 0
                THEN [wt[e] EXCEPT !.need = wt[e].need - 1]
                ELSE wt[e]]
    /\ win' = IF ~win.open THEN win
              ELSE IF win.refills = MaxWindow THEN WinClosed
              ELSE [win EXCEPT
                      !.refills = @ + 1,
                      !.grants = @ + Cardinality({ e \in Waiters :
                                       wt[e].pc = "sleep" /\ wt[e].need = 1 })]
    /\ UNCHANGED <<callerVars, restVars, workflowVars, phaseVars, ctxDone, setRate, coordVars>>

\* SetRate(rps): mu.Lock(); limiter.SetLimit(rate.Limit(rps)).
SetRate_SetLimit(rps) ==
    /\ setRate.pc = "idle"
    /\ setRate' = [pc |-> "limitSet", rps |-> rps]
    /\ lim' = [lim EXCEPT !.limit = rps]
    /\ win' = WinClosed
    /\ UNCHANGED <<callerVars, restVars, workflowVars, phaseVars, ctxDone, wt, coordVars>>

\* SetRate(rps): limiter.SetBurst(rps); mu.Unlock() (deferred).
SetRate_SetBurst ==
    /\ setRate.pc = "limitSet"
    /\ setRate' = [pc |-> "idle", rps |-> 0]
    /\ lim' = [lim EXCEPT !.burst = setRate.rps,
                          !.tokens = Min(lim.tokens, setRate.rps)]
    /\ UNCHANGED <<callerVars, restVars, workflowVars, phaseVars, ctxDone, wt, win, coordVars>>

\* An observation window of at most MaxWindow token times starts, the rate
\* being r > 0; it ends with the next SetRate.
WindowStart ==
    /\ lim.limit > 0
    /\ setRate.pc = "idle"
    /\ win # [open |-> TRUE, grants |-> 0, refills |-> 0]
    /\ win' = [open |-> TRUE, grants |-> 0, refills |-> 0]
    /\ UNCHANGED <<callerVars, restVars, workflowVars, phaseVars, ctxDone, lim, setRate, wt,
                   coordVars>>

\* The scope is cancelled.
LimiterCancel ==
    /\ ~ctxDone
    /\ ctxDone' = TRUE
    /\ UNCHANGED <<callerVars, restVars, workflowVars, phaseVars, limiterVars, coordVars>>

----------------------------------------------------------------------------
(* Coordinator: the profile run.  The supervisor (RunWithProfileConfig)     *)
(* handles one select case per step; each executor goroutine takes one      *)
(* step per select, per workflow step and per deferred call that other      *)
(* goroutines can observe.  The workflow is a core.Workflow of NumSteps     *)
(* steps; a step either returns (the workflow goes on) or makes Run return  *)
(* an error.                                                                *)

Ids == 1..MaxSpawn

Range(q) == { q[i] : i \in 1..Len(q) }

\* panics counts the "panic" Events reported for the executor; asleep tells
\* that its stop signal was closed while it slept in RateLimiter.Wait.
ActorNone ==
    [pc |-> "none", ran |-> 0, iter |-> 0, why |-> "", sig |-> -1, again |-> FALSE,
     panics |-> 0, asleep |-> FALSE]

Left(e) == actors[e].pc \in {"exiting", "gone"}

\* useRunner := config.MaxIterations > 0 || config.WarmupIters > 0
UseRunner == config.MaxIterations > 0 \/ config.WarmupIters > 0

\* The profiles of the coordinator's runs: phases of MaxDuration ticks, steady
\* at 1..MaxTarget executors or ramping between 0 and MaxTarget.
CoordPhaseSet ==
    { Phase(MaxDuration, a, 0, 0, 0) : a \in 1..MaxTarget }
    \cup
    { Phase(MaxDuration, 0, MaxTarget, 0, 0), Phase(MaxDuration, 0, 0, MaxTarget, 0) }

CoordProfileSet == UNION { [1..n -> CoordPhaseSet] : n \in 1..MaxPhases }

RunnerConfigSet == [MaxIterations : 0..MaxIterations, WarmupIters : {0}]

\* case <-stop: the executor's stop channel is closed.
StopNever(e) == FALSE

StopReady(e) == e \in closed

\* After c.wg.Done(): the goroutine of a profile run still has to decrement
\* activeCount; the goroutine started by Spawn or SpawnWithConfig (the
\* classic run) has nothing left to do.
ExitPc == IF sup \in {"spawning", "spawned"} THEN "gone" ELSE "exiting"

\* The deferred func of the goroutine, first call: c.wg.Done().  The return
\* from the loop and recoverPanic (no panic) precede it unobserved.
Leave(e, why, ran, iter) ==
    /\ actors' = [actors EXCEPT ![e] = [@ EXCEPT !.pc = ExitPc, !.why = why,
                                               !.ran = ran, !.iter = iter]]
    /\ wg' = wg - 1

\* The goroutine's select at the top of its loop, and, in the default case,
\* the entry of runner.RunIteration or workflow.Run.
A_Select(e) ==
    /\ actors[e].pc = "select"
    /\ \/ /\ ctxDone
          /\ Leave(e, "ctx", actors[e].ran, actors[e].iter)
       \/ /\ StopReady(e)
          /\ Leave(e, "stop", actors[e].ran, actors[e].iter)
       \/ /\ ~ctxDone
          /\ ~StopReady(e)
          /\ IF UseRunner /\ config.MaxIterations > 0
                /\ actors[e].iter >= config.MaxIterations
             THEN Leave(e, "max", actors[e].ran, actors[e].iter)
             ELSE /\ actors' = [actors EXCEPT ![e] =
                                  [@ EXCEPT !.pc = "step", !.ran = 0,
                                            !.again = (actors[e].sig >= 0)]]
                  /\ wg' = wg
    /\ UNCHANGED <<callerVars, restVars, workflowVars, phaseVars, ctxDone, limiterVars,
                   config, sup, nextID, activeCount, stopChans, closed, waitPc>>

\* A Runner whose counter does not advance.
IterHeld(e) == actors[e].iter

\* r.iteration++ after workflow.Run, when the executor has a Runner.
IterAfterRun(e) == IF UseRunner THEN actors[e].iter + 1 ELSE actors[e].iter

\* One step of the workflow: Execute returns, its Event is reported, and
\* either the workflow goes on (to the next step, or Run returns nil after
\* the last) or Run returns the step's error and the goroutine returns; or
\* the step panics and the goroutine starts to unwind.
A_Step(e) ==
    /\ actors[e].pc = "step"
    /\ \/ /\ actors' = [actors EXCEPT ![e] =
                          IF actors[e].ran + 1 = NumSteps
                          THEN [@ EXCEPT !.pc = "select", !.ran = NumSteps,
                                         !.iter = IterAfterRun(e)]
                          ELSE [@ EXCEPT !.ran = actors[e].ran + 1]]
          /\ wg' = wg
       \/ Leave(e, "err", actors[e].ran + 1, IterAfterRun(e))
       \/ /\ actors' = [actors EXCEPT ![e] = [@ EXCEPT !.pc = "recover"]]
          /\ wg' = wg
    /\ UNCHANGED <<callerVars, restVars, workflowVars, phaseVars, ctxDone, limiterVars,
                   config, sup, nextID, activeCount, stopChans, closed, waitPc>>

\* recoverPanic that reports nothing.
PanicSwallowed(n) == n

\* recoverPanic: c.reporter.Report(core.Event{ActorID: actorID, Step: "panic", ...})
PanicReported(n) == n + 1

\* The deferred calls of a goroutine whose workflow panicked: recoverPanic
\* recovers and reports the "panic" Event, then c.wg.Done().
A_Recover(e) ==
    /\ actors[e].pc = "recover"
    /\ actors' = [actors EXCEPT ![e] = [@ EXCEPT !.pc = ExitPc, !.why = "panic",
                                               !.panics = PanicReported(@)]]
    /\ wg' = wg - 1
    /\ UNCHANGED <<callerVars, restVars, workflowVars, phaseVars, ctxDone, limiterVars,
                   config, sup, nextID, activeCount, stopChans, closed, waitPc>>

\* c.activeCount.Add(-1)
ActiveForgotten(n) == n

ActiveAfterExit(n) == n - 1

\* The deferred func of the goroutine, second call: c.activeCount.Add(-1).
A_DecActive(e) ==
    /\ actors[e].pc = "exiting"
    /\ actors' = [actors EXCEPT ![e] = [ActorNone EXCEPT !.pc = "gone",
                                                          !.why = actors[e].why,
                                                          !.panics = actors[e].panics]]
    /\ activeCount' = ActiveAfterExit(activeCount)
    /\ UNCHANGED <<callerVars, restVars, workflowVars, phaseVars, ctxDone, limiterVars,
                   config, sup, nextID, wg, stopChans, closed, waitPc>>

\* The executors that closing the channels in cs signals, with the place
\* each is at: sig is the number of steps its iteration has run, NumSteps at
\* the top of the loop; asleep, whether it sleeps in RateLimiter.Wait.
Signalled(as, cs) ==
    [e \in Ids |->
        IF e \in cs
        THEN [as[e] EXCEPT !.sig = IF as[e].pc = "step" THEN as[e].ran ELSE NumSteps,
                           !.asleep = (e \in Waiters /\ wt[e].pc = "sleep")]
        ELSE as[e]]

\* spawnWithStop / spawnWithStopConfig, k times: ids nextID+1 .. nextID+k.
Spawned(as, k) ==
    [e \in Ids |->
        IF nextID < e /\ e <= nextID + k
        THEN [ActorNone EXCEPT !.pc = "select"]
        ELSE as[e]]

RECURSIVE Iota(_, _)
\* The sequence <<a, a+1, ..., b>>.
Iota(a, b) == IF a > b THEN <<>> ELSE <<a>> \o Iota(a + 1, b)

\* A stopAllActors that empties the list without closing its channels.
StopAllActorsForgetting ==
    /\ closed' = closed
    /\ actors' = actors
    /\ stopChans' = <<>>

\* stopAllActors(): every channel of the list is closed, the list is emptied.
StopAllActors ==
    /\ closed' = closed \cup Range(stopChans)
    /\ actors' = Signalled(actors, Range(stopChans))
    /\ stopChans' = <<>>

\* The number of channels stopActors(n) closes.
ToStop(n) == IF n > Len(stopChans) THEN Len(stopChans) ELSE n

\* A stopActors that closes the channels and leaves them in the list.
StopActorsKeepingList(n) ==
    /\ closed' = closed \cup Range(SubSeq(stopChans, 1, ToStop(n)))
    /\ actors' = Signalled(actors, Range(SubSeq(stopChans, 1, ToStop(n))))
    /\ stopChans' = stopChans

\* stopActors(n): the first toStop channels of the list are closed and the
\* list is cut to the rest, all under stopMu.
StopActors(n) ==
    /\ closed' = closed \cup Range(SubSeq(stopChans, 1, ToStop(n)))
    /\ actors' = Signalled(actors, Range(SubSeq(stopChans, 1, ToStop(n))))
    /\ stopChans' = SubSeq(stopChans, ToStop(n) + 1, Len(stopChans))

\* runWithProfile: a rate limiter is made, and given to the workflow and to
\* RunWithProfile, only for a profile with a phase of RPS > 0.
HasLimiter == \E i \in 1..Len(phases) : phases[i].RPS > 0

\* The rate of the first phase, whether set or not.
InitialRPSOfFirstPhase(ps) == ps[1].RPS

\* runWithProfile: the limiter starts with the first non-zero RPS of the
\* profile's phases.
InitialRPS(ps) ==
    ps[CHOOSE i \in 1..Len(ps) :
           ps[i].RPS > 0 /\ \A j \in 1..(i - 1) : ps[j].RPS = 0].RPS

\* case <-ctx.Done(): c.stopAllActors(); return
Sup_CtxDone ==
    /\ sup = "running"
    /\ setRate.pc = "idle"
    /\ ctxDone
    /\ StopAllActors
    /\ sup' = "returned"
    /\ UNCHANGED <<callerVars, restVars, workflowVars, phaseVars, ctxDone, limiterVars,
                   config, nextID, wg, activeCount, waitPc>>

\* case <-ticker.C: the phase manager is read at the tick's time.  Complete:
\* stopAllActors and return.  Otherwise the pool is moved toward the target:
\* target - current executors are spawned, or stopActors(current - target)
\* (StopActors) closes and removes channels from the head of the list.
\* The tick ends with rateLimiter.SetRate(pm.CurrentRPS()) if the run has a
\* rate limiter: SetLimit is made here, SetBurst (SetRate_SetBurst) ends the
\* call, and the supervisor's loop goes on after it.
Sup_Tick ==
    /\ sup = "running"
    /\ setRate.pc = "idle"
    /\ now' = now + 1
    /\ IF IsComplete(phases, now')
       THEN /\ StopAllActors
            /\ sup' = "returned"
            /\ UNCHANGED <<nextID, wg, activeCount>>
       ELSE LET target == TargetActorsAt(phases, now')
                current == activeCount
            IN  /\ sup' = "running"
                /\ IF current < target
                   THEN /\ nextID + (target - current) <= MaxSpawn
                        /\ nextID' = nextID + (target - current)
                        /\ activeCount' = activeCount + (target - current)
                        /\ wg' = wg + (target - current)
                        /\ stopChans' = stopChans \o Iota(nextID + 1, nextID + (target - current))
                        /\ actors' = Spawned(actors, target - current)
                        /\ closed' = closed
                   ELSE IF current > target
                   THEN /\ StopActors(current - target)
                        /\ UNCHANGED <<nextID, wg, activeCount>>
                   ELSE UNCHANGED <<nextID, wg, activeCount, stopChans, closed, actors>>
    /\ IF HasLimiter /\ ~IsComplete(phases, now')
       THEN /\ setRate' = [pc |-> "limitSet", rps |-> CurrentRPS(phases, now')]
            /\ lim' = [lim EXCEPT !.limit = CurrentRPS(phases, now')]
            /\ win' = WinClosed
       ELSE UNCHANGED <<lim, setRate, win>>
    /\ UNCHANGED <<callerVars, restVars, workflowVars, phases, ta, ctxDone, wt, config, waitPc>>

\* The scope is cancelled (deadline or interrupt).
CoordCancel ==
    /\ ~ctxDone
    /\ ctxDone' = TRUE
    /\ UNCHANGED <<callerVars, restVars, workflowVars, phaseVars, limiterVars, coordVars>>

\* One pass of the loop of Spawn / SpawnWithConfig: nextID.Add(1), wg.Add(1)
\* and the go statement; after the last pass the call returns.
Spawn_One ==
    /\ sup = "spawning"
    /\ nextID' = nextID + 1
    /\ wg' = wg + 1
    /\ actors' = [actors EXCEPT ![nextID + 1] = [ActorNone EXCEPT !.pc = "select"]]
    /\ sup' = IF nextID + 1 = spawnCount THEN "spawned" ELSE "spawning"
    /\ UNCHANGED <<callerVars, restVars, workflowVars, phaseVars, ctxDone, limiterVars,
                   config, activeCount, stopChans, closed, waitPc>>

\* coord.Wait() after RunWithProfile or Spawn has returned: c.wg.Wait()
\* returns when the WaitGroup's counter is zero.
Wait_Return ==
    /\ sup \in {"returned", "spawned"}
    /\ waitPc = "waiting"
    /\ wg = 0
    /\ waitPc' = "returned"
    /\ UNCHANGED <<callerVars, restVars, workflowVars, phaseVars, ctxDone, limiterVars,
                   config, sup, nextID, wg, activeCount, stopChans, closed, actors>>

----------------------------------------------------------------------------
(* The rate-limited workflow of a profile run: Workflow.Run starts with     *)
(* w.RateLimiter.Wait(ctx) and runs its steps when Wait has returned nil.   *)

\* Workflow.Run, entered from the default case of the executor's select:
\* w.RateLimiter.Wait(ctx) is called.
Run_Acquire(e) ==
    /\ actors[e].pc = "step"
    /\ actors[e].ran = 0
    /\ W_Call(e)

\* Workflow.Run once Wait has returned: `if err != nil { return err }` makes
\* the goroutine return; after nil the steps run one by one as in A_Step,
\* with no look at the stop channel or at the scope in between.  The call
\* of Wait is over when the iteration is.
Run_Steps(e) ==
    /\ actors[e].pc = "step"
    /\ wt[e].pc = "done"
    /\ IF wt[e].res # "nil"
       THEN Leave(e, "err", 0, IterAfterRun(e))
       ELSE \/ /\ actors' = [actors EXCEPT ![e] =
                                IF actors[e].ran + 1 = NumSteps
                                THEN [@ EXCEPT !.pc = "select", !.ran = NumSteps,
                                               !.iter = IterAfterRun(e)]
                                ELSE [@ EXCEPT !.ran = actors[e].ran + 1]]
               /\ wg' = wg
            \/ Leave(e, "err", actors[e].ran + 1, IterAfterRun(e))
            \/ /\ actors' = [actors EXCEPT ![e] = [@ EXCEPT !.pc = "recover"]]
               /\ wg' = wg
    /\ wt' = [wt EXCEPT ![e] = IF actors'[e].pc = "step" THEN @ ELSE WtIdle]
    /\ UNCHANGED <<callerVars, restVars, workflowVars, phaseVars, ctxDone, lim, setRate, win,
                   config, sup, nextID, activeCount, stopChans, closed, waitPc>>

----------------------------------------------------------------------------
(* Spawning from several goroutines: each caller of Spawn, SpawnWithConfig, *)
(* spawnWithStop or spawnWithStopConfig takes an id from nextID and starts  *)
(* a goroutine with it.                                                     *)

\* An Add whose sum is lost.
AtomicAddLost(n, d) == n

\* atomic.Int64.Add(d): the counter becomes n + d and that value is returned,
\* in one indivisible step.
AtomicAdd(n, d) == n + d

\* actorID := int(c.nextID.Add(1))
S_Add(s) ==
    /\ sp.pc[s] = "idle"
    /\ nextID < MaxSpawn
    /\ nextID' = AtomicAdd(nextID, 1)
    /\ sp' = [sp EXCEPT !.pc[s] = "added", !.id[s] = AtomicAdd(nextID, 1)]
    /\ UNCHANGED <<spawnCount, mn, restVars, workflowVars, phaseVars, ctxDone, limiterVars,
                   config, sup, wg, activeCount, stopChans, closed, actors, waitPc>>

\* c.wg.Add(1); go func(id int) {...}(actorID): an executor with this id runs.
S_Go(s) ==
    /\ sp.pc[s] = "added"
    /\ wg' = wg + 1
    /\ sp' = [sp EXCEPT !.pc[s] = "idle", !.issued = Append(@, sp.id[s]),
                        !.live = @ \cup {sp.id[s]}]
    /\ UNCHANGED <<spawnCount, mn, restVars, workflowVars, phaseVars, ctxDone, limiterVars,
                   config, sup, nextID, activeCount, stopChans, closed, actors, waitPc>>

\* The goroutine of executor id returns: c.wg.Done() (deferred).  Its id is
\* not given again.
S_Done(id) ==
    /\ id \in sp.live
    /\ wg' = wg - 1
    /\ sp' = [sp EXCEPT !.live = @ \ {id}]
    /\ UNCHANGED <<spawnCount, mn, restVars, workflowVars, phaseVars, ctxDone, limiterVars,
                   config, sup, nextID, activeCount, stopChans, closed, actors, waitPc>>

----------------------------------------------------------------------------
(* main: the run, the signal goroutine, the threshold check, the summary    *)
(* and the exit code.  The run itself (runClassic or runWithProfile, up to  *)
(* coll.Close()) is one step that ends by itself or on the cancelled scope. *)

ExitSuccess == 0
ExitThresholdFailed == 1

\* The names of the latency checks, in the order of checkDurationThresholds.
DurationChecks == <<"avg", "p50", "p90", "p95", "p99">>

\* parsePercentage: the text must end with "%" (pct) and what stands before
\* it must parse as a number (kind "number"; "text" is text that is no
\* number, "none" nothing at all).
ParsePercentage(r) ==
    IF ~r.pct THEN [ok |-> FALSE, value |-> 0]
    ELSE IF r.kind # "number" THEN [ok |-> FALSE, value |-> 0]
    ELSE [ok |-> TRUE, value |-> r.value]

\* An aggregate that is the verdict of the last result only.
PassedLastOnly(passed, ok) == ok

\* if !passed { r.Passed = false }
PassedAfter(passed, ok) == IF ~ok THEN FALSE ELSE passed

\* The signal goroutine receives SIGINT or SIGTERM: interrupted = true.
Sig_Receive ==
    /\ mn.sig = "waiting"
    /\ mn.pc # "exited"
    /\ mn' = [mn EXCEPT !.sig = "got", !.interrupted = TRUE,
                        !.afterRun = (mn.pc \notin {"run", "compute"})]
    /\ UNCHANGED <<spawnCount, sp, restVars, workflowVars, phaseVars, ctxDone, limiterVars,
                   coordVars>>

\* The signal goroutine calls cancel().
Sig_Cancel ==
    /\ mn.sig = "got"
    /\ mn.pc # "exited"
    /\ mn' = [mn EXCEPT !.sig = "done"]
    /\ ctxDone' = TRUE
    /\ UNCHANGED <<spawnCount, sp, restVars, workflowVars, phaseVars, limiterVars, coordVars>>

\* runClassic / runWithProfile return: the executors have left, on the
\* cancelled scope (byCancel) or at the run's own end, Wait() and Close()
\* have returned.  prog.Stop() and coll.Compute() follow: the metrics count
\* the events of the log, none to MaxReports of them, and those with Success.
Main_RunReturns ==
    /\ mn.pc = "run"
    /\ \E total \in 0..MaxReports : \E success \in 0..total :
         \/ /\ ctxDone
            /\ mn' = [mn EXCEPT !.pc = "compute", !.byCancel = TRUE,
                                !.total = total, !.success = success]
         \/ mn' = [mn EXCEPT !.pc = "compute", !.total = total, !.success = success]
    /\ UNCHANGED <<spawnCount, sp, restVars, workflowVars, phaseVars, ctxDone, limiterVars,
                   coordVars>>

\* if cfg.Thresholds != nil { thresholdResults = cfg.Thresholds.Check(metrics) }
\* up to the first check: Passed: true, no result.
Check_Start ==
    /\ mn.pc = "compute"
    /\ \/ mn' = [mn EXCEPT !.pc = "print"]
       \/ \E hasDuration \in BOOLEAN :
            mn' = [mn EXCEPT !.checked = TRUE, !.passed = TRUE, !.results = <<>>,
                             !.pc = IF hasDuration THEN "avg" ELSE "rate"]
    /\ UNCHANGED <<spawnCount, sp, restVars, workflowVars, phaseVars, ctxDone, limiterVars,
                   coordVars>>

\* checkDurationThresholds, one turn of its loop: a threshold of 0 is
\* skipped; otherwise the result passes when actual < threshold, a failure
\* clears Passed, and the result is recorded.
Check_Duration ==
    /\ \E i \in 1..Len(DurationChecks) :
         /\ mn.pc = DurationChecks[i]
         /\ \E threshold \in 0..MaxLatency : \E actual \in 0..MaxLatency :
              LET next == IF i = Len(DurationChecks) THEN "rate" ELSE DurationChecks[i + 1]
              IN  IF threshold = 0
                  THEN mn' = [mn EXCEPT !.pc = next]
                  ELSE mn' = [mn EXCEPT
                                !.pc = next,
                                !.passed = PassedAfter(@, actual < threshold),
                                !.results = Append(@, [Name |-> DurationChecks[i],
                                                       Passed |-> actual < threshold])]
    /\ UNCHANGED <<spawnCount, sp, restVars, workflowVars, phaseVars, ctxDone, limiterVars,
                   coordVars>>

\* ComputeMetrics and checkFailureRate: SuccessRate is left at 0 for a log
\* without events and is SuccessCount / TotalRequests * 100 otherwise;
\* actualRate := 100.0 - m.SuccessRate; passed := actualRate < thresholdRate.
\* The comparison is made on whole numbers, both sides times TotalRequests.
FailureRateBelow(total, success, thresholdRate) ==
    IF total = 0 THEN 100 < thresholdRate
    ELSE 100 * (total - success) < thresholdRate * total

\* The end of Check: checkFailureRate if http_req_failed is set with a rate
\* text that is not empty; a text that does not parse records nothing.
Check_FailureRate ==
    /\ mn.pc = "rate"
    /\ \/ mn' = [mn EXCEPT !.pc = "print"]
       \/ \E rate \in [kind : {"number", "text", "none"}, value : 0..MaxPercent,
                        pct : BOOLEAN] :
            IF (rate.kind = "none" /\ ~rate.pct) \/ ~ParsePercentage(rate).ok
            THEN mn' = [mn EXCEPT !.pc = "print"]
            ELSE LET passed == FailureRateBelow(mn.total, mn.success,
                                                ParsePercentage(rate).value)
                 IN  mn' = [mn EXCEPT
                              !.pc = "print",
                              !.passed = PassedAfter(@, passed),
                              !.results = Append(@, [Name |-> "rate", Passed |-> passed])]
    /\ UNCHANGED <<spawnCount, sp, restVars, workflowVars, phaseVars, ctxDone, limiterVars,
                   coordVars>>

\* coll.PrintJSON / coll.PrintText: the summary, with the threshold results.
Main_Print ==
    /\ mn.pc = "print"
    /\ mn' = [mn EXCEPT !.pc = "exit", !.printed = TRUE]
    /\ UNCHANGED <<spawnCount, sp, restVars, workflowVars, phaseVars, ctxDone, limiterVars,
                   coordVars>>

\* An exit that looks at the thresholds before the interrupt.
ExitCodeThresholdsFirst(interrupted, checked, passed) ==
    IF checked /\ ~passed THEN ExitThresholdFailed ELSE ExitSuccess

\* if interrupted { os.Exit(ExitSuccess) }; if thresholdResults != nil &&
\* !thresholdResults.Passed { os.Exit(ExitThresholdFailed) }; os.Exit(ExitSuccess)
ExitCode(interrupted, checked, passed) ==
    IF interrupted THEN ExitSuccess
    ELSE IF checked /\ ~passed THEN ExitThresholdFailed
    ELSE ExitSuccess

\* main reads interrupted and exits.  The flag is a plain bool written by
\* the signal goroutine: the write is ordered before the read when the run
\* ended on the scope that cancel() closed (byCancel); a write not ordered
\* with the read (the signal came while the run was ending by itself, or
\* after it) is a data race and the read gives either value.
Main_Exit ==
    /\ mn.pc = "exit"
    /\ \E seen \in IF ~mn.interrupted THEN {FALSE}
                    ELSE IF mn.byCancel THEN {TRUE}
                    ELSE BOOLEAN :
         mn' = [mn EXCEPT !.pc = "exited",
                          !.exit = ExitCode(seen, mn.checked, mn.passed)]
    /\ UNCHANGED <<spawnCount, sp, restVars, workflowVars, phaseVars, ctxDone, limiterVars,
                   coordVars>>

----------------------------------------------------------------------------
(* The HTTP workflow: Workflow.Run over Step.Execute *)

\* The names of the workflow variables a configuration can mention.
VarNames == 1..MaxVars

\* A step's configuration: Placeholders is the set of ${var} placeholders in
\* its URL, body and headers, Extract the variables of its extract rules
\* (each rule's path is named by its variable).
StepConfigSet == [Placeholders : SUBSET VarNames, Extract : SUBSET VarNames]

\* One status on each side of the bound that classifies a response.
StatusCodeSet == {200, 404}

\* What client.Do can produce: an error, or a response with a status and a
\* body; Valid tells whether the body is JSON, Paths which rules' paths
\* exist in it.
ResponseSet ==
    { [Err |-> TRUE, StatusCode |-> 0, Valid |-> FALSE, Paths |-> {}] }
    \cup { [Err |-> FALSE, StatusCode |-> c, Valid |-> FALSE, Paths |-> {}] :
             c \in StatusCodeSet }
    \cup { [Err |-> FALSE, StatusCode |-> c, Valid |-> TRUE, Paths |-> ps] :
             c \in StatusCodeSet, ps \in SUBSET VarNames }

\* template.Substitute: fails when a placeholder names no workflow variable.
SubstituteFails(placeholders, vs) == \E v \in placeholders : v \notin vs

\* template.Extract: nothing without rules; an error on a body that is not
\* JSON or that lacks the path of a rule; otherwise a value per rule.
Extract(body, rules) ==
    IF rules = {} THEN [Values |-> {}, Err |-> FALSE]
    ELSE IF ~body.Valid THEN [Values |-> {}, Err |-> TRUE]
    ELSE IF \E v \in rules : v \notin body.Paths THEN [Values |-> {}, Err |-> TRUE]
    ELSE [Values |-> rules, Err |-> FALSE]

\* Step.Execute, were the extraction not guarded by the response's success.
ExecuteExtractsAlways(cfg, vs, resp) ==
    IF SubstituteFails(cfg.Placeholders, vs)
    THEN [Success |-> FALSE, Error |-> "substitute", StatusCode |-> 0, Extract |-> {}, Err |-> TRUE]
    ELSE IF resp.Err
    THEN [Success |-> FALSE, Error |-> "transport", StatusCode |-> 0, Extract |-> {}, Err |-> TRUE]
    ELSE IF ~(resp.StatusCode < 400)
    THEN [Success |-> FALSE, Error |-> "status", StatusCode |-> resp.StatusCode,
          Extract |-> Extract(resp, cfg.Extract).Values, Err |-> FALSE]
    ELSE IF Extract(resp, cfg.Extract).Err
    THEN [Success |-> FALSE, Error |-> "extract", StatusCode |-> resp.StatusCode,
          Extract |-> Extract(resp, cfg.Extract).Values, Err |-> FALSE]
    ELSE [Success |-> TRUE, Error |-> "", StatusCode |-> resp.StatusCode, Extract |-> Extract(resp, cfg.Extract).Values,
          Err |-> FALSE]

\* Step.Execute, were a failing status returned as an error.
ExecuteStatusAborts(cfg, vs, resp) ==
    IF SubstituteFails(cfg.Placeholders, vs)
    THEN [Success |-> FALSE, Error |-> "substitute", StatusCode |-> 0, Extract |-> {}, Err |-> TRUE]
    ELSE IF resp.Err
    THEN [Success |-> FALSE, Error |-> "transport", StatusCode |-> 0, Extract |-> {}, Err |-> TRUE]
    ELSE IF ~(resp.StatusCode < 400)
    THEN [Success |-> FALSE, Error |-> "status", StatusCode |-> resp.StatusCode, Extract |-> {}, Err |-> TRUE]
    ELSE IF Extract(resp, cfg.Extract).Err
    THEN [Success |-> FALSE, Error |-> "extract", StatusCode |-> resp.StatusCode,
          Extract |-> Extract(resp, cfg.Extract).Values, Err |-> FALSE]
    ELSE [Success |-> TRUE, Error |-> "", StatusCode |-> resp.StatusCode, Extract |-> Extract(resp, cfg.Extract).Values,
          Err |-> FALSE]

\* Step.Execute, were the error text left empty when the extraction fails.
ExecuteExtractErrorUnset(cfg, vs, resp) ==
    IF SubstituteFails(cfg.Placeholders, vs)
    THEN [Success |-> FALSE, Error |-> "substitute", StatusCode |-> 0, Extract |-> {}, Err |-> TRUE]
    ELSE IF resp.Err
    THEN [Success |-> FALSE, Error |-> "transport", StatusCode |-> 0, Extract |-> {}, Err |-> TRUE]
    ELSE IF ~(resp.StatusCode < 400)
    THEN [Success |-> FALSE, Error |-> "status", StatusCode |-> resp.StatusCode, Extract |-> {}, Err |-> FALSE]
    ELSE IF Extract(resp, cfg.Extract).Err
    THEN [Success |-> FALSE, Error |-> "", StatusCode |-> resp.StatusCode,
          Extract |-> Extract(resp, cfg.Extract).Values, Err |-> FALSE]
    ELSE [Success |-> TRUE, Error |-> "", StatusCode |-> resp.StatusCode, Extract |-> Extract(resp, cfg.Extract).Values,
          Err |-> FALSE]

\* Step.Execute: the core.Result (Success, Error, Extract) and the error
\* returned with it.  A failed substitution and a failed client.Do return
\* the error; a failed extraction makes the Result a failure and returns no
\* error.
Execute(cfg, vs, resp) ==
    IF SubstituteFails(cfg.Placeholders, vs)
    THEN [Success |-> FALSE, Error |-> "substitute", StatusCode |-> 0, Extract |-> {}, Err |-> TRUE]
    ELSE IF resp.Err
    THEN [Success |-> FALSE, Error |-> "transport", StatusCode |-> 0, Extract |-> {}, Err |-> TRUE]
    ELSE IF ~(resp.StatusCode < 400)
    THEN [Success |-> FALSE, Error |-> "status", StatusCode |-> resp.StatusCode, Extract |-> {}, Err |-> FALSE]
    ELSE IF Extract(resp, cfg.Extract).Err
    THEN [Success |-> FALSE, Error |-> "extract", StatusCode |-> resp.StatusCode,
          Extract |-> Extract(resp, cfg.Extract).Values, Err |-> FALSE]
    ELSE [Success |-> TRUE, Error |-> "", StatusCode |-> resp.StatusCode, Extract |-> Extract(resp, cfg.Extract).Values,
          Err |-> FALSE]

\* core.NewVariables(): no variable is set.  A variable's value is the number
\* of the step that set it last, 0 while it is unset.
NewVariables == [v \in VarNames |-> 0]

\* The variables that Get finds.
Defined(vs) == { v \in VarNames : vs[v] # 0 }

\* No response received yet.
NoResponse == [Err |-> FALSE, StatusCode |-> 0, Valid |-> FALSE, Paths |-> {}]

WfIdle ==
    [pc |-> "idle", i |-> 0, vars |-> NewVariables, events |-> <<>>, err |-> FALSE,
     resp |-> NoResponse]

\* Workflow.Run up to its loop: no rate limiter here, fresh variables.
Run_Start ==
    /\ wf.pc = "idle"
    /\ wf' = [wf EXCEPT !.pc = "loop", !.i = 1, !.vars = NewVariables]
    /\ UNCHANGED <<callerVars, restVars, steps, phaseVars, ctxDone, limiterVars, coordVars>>

\* One turn of Run's loop: Execute the step, Report its Event, merge what it
\* extracted (vars.Set for every pair of a non-nil result.Extract), return
\* on an error.
Run_Step ==
    /\ wf.pc = "loop"
    /\ wf.i <= Len(steps)
    /\ \E resp \in ResponseSet :
         LET r == Execute(steps[wf.i], Defined(wf.vars), resp) IN
           wf' = [wf EXCEPT
                    !.resp = resp,
                    !.events = Append(@, [Step |-> wf.i, Success |-> r.Success,
                                          Error |-> r.Error,
                                          StatusCode |-> r.StatusCode]),
                    !.vars = [v \in VarNames |->
                                IF v \in r.Extract THEN wf.i ELSE wf.vars[v]],
                    !.err = r.Err,
                    !.pc = IF r.Err THEN "done" ELSE "loop",
                    !.i = IF r.Err THEN @ ELSE @ + 1]
    /\ UNCHANGED <<callerVars, restVars, steps, phaseVars, ctxDone, limiterVars, coordVars>>

\* recoverPanic's Event: Step "panic" (written 0, the number of no step),
\* Success false, Error "panic: ...", no status code.
PanicEvent == [Step |-> 0, Success |-> FALSE, Error |-> "panic", StatusCode |-> 0]

\* A step panics in Execute: Run does not report for it, the goroutine
\* unwinds and its deferred recoverPanic reports the panic's Event.
Run_Panic ==
    /\ wf.pc = "loop"
    /\ wf.i <= Len(steps)
    /\ wf' = [wf EXCEPT !.events = Append(@, PanicEvent), !.pc = "panicked"]
    /\ UNCHANGED <<callerVars, restVars, steps, phaseVars, ctxDone, limiterVars, coordVars>>

\* Run returns nil after the last step.
Run_Return ==
    /\ wf.pc = "loop"
    /\ wf.i > Len(steps)
    /\ wf' = [wf EXCEPT !.pc = "done"]
    /\ UNCHANGED <<callerVars, restVars, steps, phaseVars, ctxDone, limiterVars, coordVars>>

----------------------------------------------------------------------------
(* core.Runner: RunIteration, driven by a loop that calls it until it       *)
(* returns ErrMaxIterationsReached.  The workflow is any core.Workflow: an  *)
(* invocation returns nil or an error of its own.                           *)

RunnerSpecConfigSet == [MaxIterations : 0..MaxRunnerIters, WarmupIters : 0..MaxWarmup]

\* NewRunner: iteration starts at zero.  calls lists the workflow.Run
\* invocations made so far: the reporter each was handed and what it returned.
NewRunner(cfg) ==
    [config |-> cfg, iteration |-> 0, pc |-> "idle", rep |-> "", ret |-> "",
     calls |-> <<>>]

\* rep := r.reporter; if r.iteration < r.config.WarmupIters { rep = NullReporter }
SelectReporter(r) == IF r.iteration < r.config.WarmupIters THEN "null" ELSE "real"

\* r.iteration++ after workflow.Run, whatever it returned.
NextIterationUnlessError(it, err) == IF err THEN it ELSE it + 1

NextIteration(it, err) == it + 1

\* The driver calls RunIteration again unless the last call returned the
\* sentinel.  A driver of an uncapped runner stops by itself after
\* MaxRunnerIters + 1 invocations.
RunIteration_Call ==
    /\ runner.pc = "idle"
    /\ runner.ret # "max"
    /\ Len(runner.calls) <= MaxRunnerIters
    /\ runner' = [runner EXCEPT !.pc = "check"]
    /\ UNCHANGED <<phaseVars, ctxDone, limiterVars, coordVars, workflowVars,
                   callerVars, collectorVars>>

\* The test of the cap and the choice of the reporter.
RunIteration_Check ==
    /\ runner.pc = "check"
    /\ IF runner.config.MaxIterations > 0
          /\ runner.iteration >= runner.config.MaxIterations
       THEN runner' = [runner EXCEPT !.pc = "idle", !.ret = "max"]
       ELSE runner' = [runner EXCEPT !.pc = "run", !.rep = SelectReporter(runner)]
    /\ UNCHANGED <<phaseVars, ctxDone, limiterVars, coordVars, workflowVars,
                   callerVars, collectorVars>>

\* err := r.workflow.Run(ctx, r.actorID, r.coord, rep); r.iteration++; return err
RunIteration_Run ==
    /\ runner.pc = "run"
    /\ \E err \in BOOLEAN :
         runner' = [runner EXCEPT
                      !.pc = "idle",
                      !.calls = Append(@, [rep |-> runner.rep, err |-> err]),
                      !.iteration = NextIteration(@, err),
                      !.ret = IF err THEN "err" ELSE "nil"]
    /\ UNCHANGED <<phaseVars, ctxDone, limiterVars, coordVars, workflowVars,
                   callerVars, collectorVars>>

----------------------------------------------------------------------------
(* collector.Collector: producers calling Report, the consumer goroutine    *)
(* collect, and a caller of Close.  Events are named 1, 2, ... in the order *)
(* the Report calls are made.  The channel's capacity is QueueCap.          *)

Producers == 1..NumProducers

\* NewCollector: an empty channel, an empty log, the consumer started and
\* about to receive.  dropped is the counter DroppedEvents() reads.
NewCollector ==
    [ch |-> <<>>, chClosed |-> FALSE, events |-> <<>>, pc |-> "recv", held |-> 0,
     ended |-> FALSE, dropped |-> 0]

\* The dropped-event counter as its accessor returns it.
DroppedEvents(c) == c.dropped

\* A producer enters Report with a fresh event.
Report_Call(p) ==
    /\ prod[p].pc = "idle"
    /\ rlog.issued < MaxReports
    /\ prod' = [prod EXCEPT ![p] = [pc |-> "select", ev |-> rlog.issued + 1, out |-> ""]]
    /\ rlog' = [rlog EXCEPT !.issued = @ + 1]
    /\ UNCHANGED <<phaseVars, ctxDone, limiterVars, coordVars, workflowVars,
                   runnerVars, callerVars, coll, closer>>

\* select { case c.ch <- event: default: } with no default case: the send
\* waits for room.
SelectBlocking(c) ==
    IF c.chClosed THEN "panic"
    ELSE IF Len(c.ch) < QueueCap THEN "sent" ELSE "block"

\* select { case c.ch <- event: default: }: a send on a closed channel
\* panics; with room in the buffer the send proceeds; otherwise the default
\* case is taken.
SelectOutcome(c) ==
    IF c.chClosed THEN "panic"
    ELSE IF Len(c.ch) < QueueCap THEN "sent" ELSE "default"

\* Report's select statement, and its return.  The default case is empty.
Report_Select(p) ==
    /\ prod[p].pc = "select"
    /\ SelectOutcome(coll) # "block"
    /\ LET o == SelectOutcome(coll)
       IN  /\ prod' = [prod EXCEPT ![p] =
                         [@ EXCEPT !.pc = IF o = "panic" THEN "panicked" ELSE "idle",
                                   !.out = o]]
           /\ coll' = IF o = "sent"
                      THEN [coll EXCEPT !.ch = Append(@, prod[p].ev)]
                      ELSE coll
           /\ rlog' = IF o = "sent"
                      THEN [rlog EXCEPT !.sent = @ \cup {prod[p].ev},
                                        !.by[prod[p].ev] = p]
                      ELSE IF o = "default"
                      THEN [rlog EXCEPT !.shed = @ \cup {prod[p].ev}]
                      ELSE rlog
    /\ UNCHANGED <<phaseVars, ctxDone, limiterVars, coordVars, workflowVars,
                   runnerVars, callerVars, closer>>

\* A consumer that leaves its loop as soon as the channel is closed.
RecvStopsAtClose(c) ==
    IF c.chClosed THEN "done" ELSE IF Len(c.ch) > 0 THEN "event" ELSE "wait"

\* for event := range c.ch: the next buffered event, also after the channel
\* was closed; the loop ends when the channel is closed and empty.
RecvOutcome(c) ==
    IF Len(c.ch) > 0 THEN "event" ELSE IF c.chClosed THEN "done" ELSE "wait"

\* collect: the receive of the range loop, or the loop's end and close(c.done).
Collect_Recv ==
    /\ coll.pc = "recv"
    /\ RecvOutcome(coll) # "wait"
    /\ coll' = IF RecvOutcome(coll) = "event"
               THEN [coll EXCEPT !.pc = "append", !.held = Head(coll.ch),
                                 !.ch = Tail(coll.ch)]
               ELSE [coll EXCEPT !.pc = "done"]
    /\ UNCHANGED <<phaseVars, ctxDone, limiterVars, coordVars, workflowVars,
                   runnerVars, callerVars, prod, closer, rlog>>

\* A log that grows at its head.
LogPrepended(events, ev) == <<ev>> \o events

\* c.events = append(c.events, event)
LogAppended(events, ev) == Append(events, ev)

\* collect: c.mu.Lock(); c.events = append(c.events, event); c.mu.Unlock()
Collect_Append ==
    /\ coll.pc = "append"
    /\ coll' = [coll EXCEPT !.pc = "recv", !.held = 0,
                            !.events = LogAppended(@, coll.held)]
    /\ UNCHANGED <<phaseVars, ctxDone, limiterVars, coordVars, workflowVars,
                   runnerVars, callerVars, prod, closer, rlog>>

\* Close is called (again, unless the last call panicked): c.endTime = time.Now()
Close_Call ==
    /\ closer.pc = "idle"
    /\ Len(closer.outs) < MaxCloses
    /\ \A i \in 1..Len(closer.outs) : closer.outs[i] # "panic"
    /\ closer' = [closer EXCEPT !.pc = "close", !.queued = rlog.sent,
                                !.pending = Len(coll.ch)]
    /\ coll' = [coll EXCEPT !.ended = TRUE]
    /\ UNCHANGED <<phaseVars, ctxDone, limiterVars, coordVars, workflowVars,
                   runnerVars, callerVars, prod, rlog>>

\* Close: close(c.ch), which panics on a channel that is already closed.
Close_CloseCh ==
    /\ closer.pc = "close"
    /\ IF coll.chClosed
       THEN /\ closer' = [closer EXCEPT !.pc = "idle", !.outs = Append(@, "panic")]
            /\ coll' = coll
       ELSE /\ closer' = [closer EXCEPT !.pc = "wait"]
            /\ coll' = [coll EXCEPT !.chClosed = TRUE]
    /\ UNCHANGED <<phaseVars, ctxDone, limiterVars, coordVars, workflowVars,
                   runnerVars, callerVars, prod, rlog>>

\* Close: <-c.done, which the consumer closes at the end of collect.
Close_Wait ==
    /\ closer.pc = "wait"
    /\ coll.pc = "done"
    /\ closer' = [closer EXCEPT !.pc = "idle", !.outs = Append(@, "returned")]
    /\ UNCHANGED <<phaseVars, ctxDone, limiterVars, coordVars, workflowVars,
                   runnerVars, callerVars, coll, prod, rlog>>

----------------------------------------------------------------------------
(* The specifications *)

\* The state of the phase manager's variables in the specifications without one.
PhaseIdle ==
    /\ phases = <<>>
    /\ now = 0
    /\ ta = TaIdle

\* The state of the limiter's variables in the specifications without one.
LimiterIdle ==
    /\ lim = NewRateLimiter(0)
    /\ setRate = [pc |-> "idle", rps |-> 0]
    /\ wt = [e \in Waiters |-> WtIdle]
    /\ win = WinClosed

\* The state of the coordinator's variables in the specifications without one.
CoordIdle ==
    /\ config = [MaxIterations |-> 0, WarmupIters |-> 0]
    /\ sup = "running"
    /\ nextID = 0
    /\ wg = 0
    /\ activeCount = 0
    /\ stopChans = <<>>
    /\ closed = {}
    /\ actors = [e \in Ids |-> ActorNone]
    /\ waitPc = "waiting"

\* The state of the workflow's variables in the specifications without one.
WorkflowIdle ==
    /\ steps = <<>>
    /\ wf = WfIdle

\* The state of the runner's variable in the specifications without one.
RunnerIdle == runner = NewRunner([MaxIterations |-> 0, WarmupIters |-> 0])

\* The state of the classic spawn's variable in the specifications without one.
ClassicIdle == spawnCount = 0

\* The state of main's and the spawners' variables in the specifications
\* without them: main has not started its run, no signal has come, no
\* signal came after the run (mn.afterRun: the signal was received when the
\* run had returned and its metrics were computed), no
\* metrics were computed (mn.total, mn.success: Metrics.TotalRequests and
\* Metrics.SuccessCount), no threshold was checked, no id was taken (sp.issued: the ids of the
\* executors started, in the order of their go statements; sp.live: those
\* still running).
CallersIdle ==
    /\ mn = [pc |-> "run", sig |-> "waiting", interrupted |-> FALSE, byCancel |-> FALSE,
             afterRun |-> FALSE, total |-> 0, success |-> 0,
             checked |-> FALSE, passed |-> TRUE, results |-> <<>>,
             printed |-> FALSE, exit |-> -1]
    /\ sp = [pc |-> [s \in 1..NumSpawners |-> "idle"], id |-> [s \in 1..NumSpawners |-> 0],
             issued |-> <<>>, live |-> {}]

\* The state of the collector's variables in the specifications without one:
\* no producer in Report, no Close call made, no event issued.  closer.outs
\* tells how each Close call ended; closer.queued, the events Report had
\* placed in the queue when Close was last called; closer.pending, how many
\* of them the consumer had not yet received.  rlog.by names the producer
\* of each event placed in the queue.
CollectorIdle ==
    /\ coll = NewCollector
    /\ prod = [p \in Producers |-> [pc |-> "idle", ev |-> 0, out |-> ""]]
    /\ closer = [pc |-> "idle", outs |-> <<>>, queued |-> {}, pending |-> 0]
    /\ rlog = [issued |-> 0, sent |-> {}, shed |-> {}, by |-> [i \in 1..MaxReports |-> 0]]

\* The variables of the runner, the classic spawn and the collector at rest.
RestIdle == RunnerIdle /\ ClassicIdle /\ CollectorIdle /\ CallersIdle

PhaseInit ==
    /\ RestIdle
    /\ phases \in ProfileSet
    /\ now = 0
    /\ ta = TaIdle
    /\ ctxDone = FALSE
    /\ LimiterIdle
    /\ CoordIdle
    /\ WorkflowIdle

PhaseNext ==
    \/ ClockAdvance
    \/ TA_CurrentPhase
    \/ TA_Elapsed
    \/ TA_Loop
    \/ TA_Compute
    \/ TA_Return

SpecPhase == PhaseInit /\ [][PhaseNext]_vars

\* NewPhaseManager / NewPhaseManagerWithClock: the manager holds the phases
\* it was given, as given; the constructors return no error.
NewPhaseManager(ps) == ps

\* A PhaseManager is made from a phase list of the configuration; its start
\* time is the clock's time of the call.  LoadConfig unmarshals the YAML and
\* checks no value, so the list can hold a concurrency below 0.
PM_New ==
    /\ phases = <<>>
    /\ \E ps \in UNION { [1..n ->
                  { Phase(MaxDuration, a, 0, 0, 0) : a \in -1..MaxActors }
                  \cup { Phase(MaxDuration, 0, pr[1], pr[2], 0) :
                           pr \in { q \in (-1..MaxActors) \X (-1..MaxActors) :
                                      q[1] # q[2] } }] :
                         n \in 1..MaxPhases } :
         phases' = NewPhaseManager(ps)
    /\ UNCHANGED <<callerVars, restVars, workflowVars, now, ta, ctxDone, limiterVars, coordVars>>

\* The process has started: no PhaseManager yet, main about to call
\* runClassic or runWithProfile, signal.Notify made, no signal received.
StartInit ==
    /\ RestIdle
    /\ PhaseIdle
    /\ ctxDone = FALSE
    /\ LimiterIdle
    /\ CoordIdle
    /\ WorkflowIdle

\* The construction, then the manager's queries as the clock advances.
ConstructNext ==
    \/ PM_New
    \/ (phases # <<>> /\ PhaseNext)

SpecConstruct == StartInit /\ [][ConstructNext]_vars

LimiterInit ==
    /\ RestIdle
    /\ PhaseIdle
    /\ ctxDone = FALSE
    /\ \E rps \in 0..MaxRate : lim = NewRateLimiter(rps)
    /\ setRate = [pc |-> "idle", rps |-> 0]
    /\ wt = [e \in Waiters |-> WtIdle]
    /\ win = WinClosed
    /\ CoordIdle
    /\ WorkflowIdle

LimiterNext ==
    \/ \E e \in Waiters : W_Call(e)
    \/ \E e \in Waiters : W_ReadLimit(e)
    \/ \E e \in Waiters : W_Enter(e)
    \/ \E e \in Waiters : W_Reserve(e)
    \/ \E e \in Waiters : W_Timer(e)
    \/ \E e \in Waiters : W_Cancelled(e)
    \/ \E e \in Waiters : W_Return(e)
    \/ Refill
    \/ \E rps \in 0..MaxRate : SetRate_SetLimit(rps)
    \/ SetRate_SetBurst
    \/ WindowStart
    \/ LimiterCancel

SpecLimiter == LimiterInit /\ [][LimiterNext]_vars

\* NewCoordinator, and RunWithProfileConfig up to its loop.
CoordInit ==
    /\ RestIdle
    /\ phases \in CoordProfileSet
    /\ now = 0
    /\ ta = TaIdle
    /\ ctxDone = FALSE
    /\ LimiterIdle
    /\ config \in RunnerConfigSet
    /\ sup = "running"
    /\ nextID = 0
    /\ wg = 0
    /\ activeCount = 0
    /\ stopChans = <<>>
    /\ closed = {}
    /\ actors = [e \in Ids |-> ActorNone]
    /\ waitPc = "waiting"
    /\ WorkflowIdle

CoordNext ==
    \/ Sup_CtxDone
    \/ Sup_Tick
    \/ CoordCancel
    \/ Wait_Return
    \/ \E e \in Ids : A_Select(e)
    \/ \E e \in Ids : A_Step(e)
    \/ \E e \in Ids : A_Recover(e)
    \/ \E e \in Ids : A_DecActive(e)

SpecCoord == CoordInit /\ [][CoordNext]_vars

\* runWithProfile at its call of RunWithProfile: the limiter made, the
\* workflow holding it.  The profiles are steady phases of one executor and
\* MaxDuration ticks, each with an RPS of 0..MaxRate, one of them at least
\* not 0.
RateInit ==
    /\ RestIdle
    /\ phases \in { ps \in UNION { [1..n -> { Phase(MaxDuration, 1, 0, 0, r) :
                                                r \in 0..MaxRate }] :
                                    n \in 1..MaxPhases } :
                       \E i \in 1..Len(ps) : ps[i].RPS > 0 }
    /\ now = 0
    /\ ta = TaIdle
    /\ ctxDone = FALSE
    /\ lim = NewRateLimiter(InitialRPS(phases))
    /\ setRate = [pc |-> "idle", rps |-> 0]
    /\ wt = [e \in Waiters |-> WtIdle]
    /\ win = WinClosed
    /\ CoordIdle
    /\ WorkflowIdle

\* The supervisor and the limiter; the iterations of the profile's one
\* executor are its calls of RateLimiter.Wait at the start of Workflow.Run.
RateNext ==
    \/ Sup_CtxDone
    \/ Sup_Tick
    \/ SetRate_SetBurst
    \/ LimiterCancel
    \/ Refill
    \/ W_Call(1)
    \/ W_ReadLimit(1)
    \/ W_Enter(1)
    \/ W_Reserve(1)
    \/ W_Timer(1)
    \/ W_Cancelled(1)
    \/ W_Return(1)

SpecRate == RateInit /\ [][RateNext]_vars

\* NewCoordinator, and RunWithProfile up to its loop, for the profiles of
\* steady phases that last 1..MaxDuration ticks each: a phase of one tick is
\* as long as the supervisor's tick interval (phaseTickInterval).
ShortInit ==
    /\ RestIdle
    /\ phases \in UNION { [1..n -> { Phase(d, a, 0, 0, 0) :
                                        d \in 1..MaxDuration, a \in 1..MaxTarget }] :
                           n \in 1..MaxPhases }
    /\ now = 0
    /\ ta = TaIdle
    /\ ctxDone = FALSE
    /\ LimiterIdle
    /\ CoordIdle
    /\ WorkflowIdle

SpecShort == ShortInit /\ [][CoordNext]_vars

\* The profile run with its limiter and the executors that call it: the
\* supervisor, the limiter's clock, and executors 1..NumWaiters, each at its
\* select, in Wait, or at the steps of its iteration.
ThrottleNext ==
    \/ Sup_CtxDone
    \/ Sup_Tick
    \/ SetRate_SetBurst
    \/ LimiterCancel
    \/ Refill
    \/ \E e \in Waiters : A_Select(e)
    \/ \E e \in Waiters : Run_Acquire(e)
    \/ \E e \in Waiters : W_ReadLimit(e)
    \/ \E e \in Waiters : W_Enter(e)
    \/ \E e \in Waiters : W_Reserve(e)
    \/ \E e \in Waiters : W_Timer(e)
    \/ \E e \in Waiters : W_Cancelled(e)
    \/ \E e \in Waiters : Run_Steps(e)
    \/ \E e \in Waiters : A_Recover(e)
    \/ \E e \in Waiters : A_DecActive(e)

SpecThrottle == RateInit /\ [][ThrottleNext]_vars

\* The supervisor's goroutine, every executor's goroutine and the caller of
\* Wait are scheduled: each takes a step it can take (every workflow step
\* returns, fails or panics).
StopFairness ==
    /\ WF_vars(Sup_CtxDone)
    /\ WF_vars(Sup_Tick)
    /\ WF_vars(Wait_Return)
    /\ \A e \in Ids : /\ WF_vars(A_Select(e)) /\ WF_vars(A_Step(e))
                       /\ WF_vars(A_Recover(e)) /\ WF_vars(A_DecActive(e))

\* RunWithProfileConfig up to its loop, for a profile of one phase.
StopInit ==
    /\ CoordInit
    /\ Len(phases) = 1

\* The profile run with its goroutines scheduled.
SpecStop == StopInit /\ [][CoordNext]_vars /\ StopFairness

\* NewCoordinator, and main's runClassic at its call of Spawn (no iteration
\* cap) or SpawnWithConfig with count executors.
ClassicInit ==
    /\ PhaseIdle
    /\ ctxDone = FALSE
    /\ LimiterIdle
    /\ WorkflowIdle
    /\ RunnerIdle
    /\ CollectorIdle
    /\ CallersIdle
    /\ spawnCount \in 1..MaxCount
    /\ config \in RunnerConfigSet
    /\ sup = "spawning"
    /\ nextID = 0
    /\ wg = 0
    /\ activeCount = 0
    /\ stopChans = <<>>
    /\ closed = {}
    /\ actors = [e \in Ids |-> ActorNone]
    /\ waitPc = "waiting"

ClassicNext ==
    \/ Spawn_One
    \/ CoordCancel
    \/ Wait_Return
    \/ \E e \in Ids : A_Select(e)
    \/ \E e \in Ids : A_Step(e)
    \/ \E e \in Ids : A_Recover(e)

\* Every goroutine that can take a step eventually takes one, and so do the
\* caller's Spawn loop and its Wait.
ClassicFairness ==
    /\ WF_vars(Spawn_One)
    /\ WF_vars(Wait_Return)
    /\ \A e \in Ids : WF_vars(A_Select(e)) /\ WF_vars(A_Step(e)) /\ WF_vars(A_Recover(e))

SpecClassic == ClassicInit /\ [][ClassicNext]_vars /\ ClassicFairness

\* A workflow of NumSteps steps, about to be run once by one executor.
WorkflowInit ==
    /\ RestIdle
    /\ PhaseIdle
    /\ ctxDone = FALSE
    /\ LimiterIdle
    /\ CoordIdle
    /\ steps \in [1..NumSteps -> StepConfigSet]
    /\ wf = WfIdle

WorkflowNext ==
    \/ Run_Start
    \/ Run_Step
    \/ Run_Panic
    \/ Run_Return

SpecWorkflow == WorkflowInit /\ [][WorkflowNext]_vars

\* A runner just made by NewRunner, about to be driven.
RunnerInit ==
    /\ PhaseIdle
    /\ ctxDone = FALSE
    /\ LimiterIdle
    /\ CoordIdle
    /\ WorkflowIdle
    /\ ClassicIdle
    /\ CollectorIdle
    /\ CallersIdle
    /\ \E cfg \in RunnerSpecConfigSet : runner = NewRunner(cfg)

RunnerNext ==
    \/ RunIteration_Call
    \/ RunIteration_Check
    \/ RunIteration_Run

SpecRunner == RunnerInit /\ [][RunnerNext]_vars

\* A collector just made by NewCollector.
CollectorInit ==
    /\ PhaseIdle
    /\ ctxDone = FALSE
    /\ LimiterIdle
    /\ CoordIdle
    /\ WorkflowIdle
    /\ RunnerIdle
    /\ ClassicIdle
    /\ CollectorIdle
    /\ CallersIdle

CollectorNext ==
    \/ \E p \in Producers : Report_Call(p)
    \/ \E p \in Producers : Report_Select(p)
    \/ Collect_Recv
    \/ Collect_Append
    \/ Close_Call
    \/ Close_CloseCh
    \/ Close_Wait

SpecCollector == CollectorInit /\ [][CollectorNext]_vars

MainNext ==
    \/ Sig_Receive
    \/ Sig_Cancel
    \/ Main_RunReturns
    \/ Check_Start
    \/ Check_Duration
    \/ Check_FailureRate
    \/ Main_Print
    \/ Main_Exit

SpecMain == StartInit /\ [][MainNext]_vars

SpawnNext ==
    \/ \E s \in 1..NumSpawners : S_Add(s)
    \/ \E s \in 1..NumSpawners : S_Go(s)
    \/ \E id \in 0..MaxSpawn : S_Done(id)

\* A fresh Coordinator and NumSpawners goroutines that spawn executors.
SpecSpawn == StartInit /\ [][SpawnNext]_vars

----------------------------------------------------------------------------
(* Claims about the PhaseManager (SpecPhase) *)

PhaseMax(p) == Max(Max(p.StartActors, p.EndActors), p.Actors)

IsRamp(p) == p.Actors = 0 /\ p.StartActors # p.EndActors

\* The phases that are current at some instant between the call's first
\* clock reading, which found phase ta.phase, and now.
PhasesDuringCall ==
    { i \in 0..(Len(phases) - 1) :
        /\ ta.phase <= i
        /\ i <= CurrentPhaseIndex(phases, now) }

\* C8: every call of TargetActors() returns t with 0 <= t <= max(start, end,
\* actors) of a phase that is current during the call, and 0 when the profile
\* is complete at the call's entry, also when the clock crosses a phase
\* boundary during the call.
C8_TargetWithinPhaseMax ==
    ta.pc = "ret" =>
        /\ ta.result >= 0
        /\ ta.phase = NoPhase => ta.result = 0
        /\ ta.phase # NoPhase =>
              \E i \in PhasesDuringCall : ta.result <= PhaseMax(phases[i + 1])

\* C9 as stated: in a ramp phase the call returns start + floor((end - start)
\* * progress), the mathematical floor, for ascending and descending ramps,
\* with progress = elapsedInPhase / duration.  Stated for the calls whose
\* clock readings all fall in the phase the call found, the clock standing
\* still since Elapsed() was read, so that elapsedInPhase has one value.
SteadyClock ==
    /\ ta.phase = CurrentPhaseIndex(phases, now)
    /\ ta.elapsed = now

----------------------------------------------------------------------------
(* Claims about the RateLimiter (SpecLimiter) *)

\* C1: under every interleaving of Wait calls with SetRate calls, SetRate(0)
\* and changes between non-zero rates included, a Wait returns an error only
\* if the scope was cancelled.
C1_WaitFailsOnlyOnCancel ==
    \A e \in Waiters :
        (wt[e].pc = "done" /\ wt[e].res # "nil") => ctxDone

----------------------------------------------------------------------------
(* Claims about the Coordinator's profile run (SpecCoord) *)

SpawnedIds == 1..nextID

\* The executor's iteration cap is reached.
Capped(a) == config.MaxIterations > 0 /\ a.iter >= config.MaxIterations

\* C2: when a step fails with a transport-level error the executor is not
\* terminated: with the scope not cancelled, its stop signal not fired and
\* its iteration cap not reached, the executor that was running a step is
\* afterwards still in its loop (at a step, or at the top for its next
\* iteration).
C2_StepErrorKeepsExecutor ==
    [][\A e \in Ids :
          (/\ actors[e].pc = "step"
           /\ ~ctxDone
           /\ e \notin closed
           /\ ~Capped(actors'[e]))
          => actors'[e].pc \in {"step", "select"}]_vars

\* Every executor spawned so far has left because of its iteration cap.
AllCapped ==
    /\ nextID > 0
    /\ \A e \in SpawnedIds : Left(e) /\ actors[e].why = "max"

\* C3: with maxIterations > 0 the run ends when every executor has hit its
\* cap, even if profile time remains: at the first tick that finds every
\* executor gone by its cap, RunWithProfile returns.
C3_ReturnsWhenAllCapped ==
    [][(/\ config.MaxIterations > 0
        /\ sup = "running"
        /\ AllCapped
        /\ now' # now)
       => sup' = "returned"]_vars

\* The executors that are running and whose stop signal is not closed.
Outstanding == { e \in SpawnedIds : ~Left(e) /\ e \notin closed }

\* C4: on a tick with current > target, exactly current - target stop
\* signals are closed, those of the earliest-spawned executors still
\* outstanding, and each closed signal is removed from the list.
C4_DownscaleClosesExactlyExcessFIFO ==
    [][(/\ sup = "running"
        /\ sup' = "running"
        /\ now' # now
        /\ activeCount > TargetActorsAt(phases, now'))
       => /\ Cardinality(closed' \ closed) = activeCount - TargetActorsAt(phases, now')
          /\ (closed' \ closed) \subseteq Outstanding
          /\ \A x \in closed' \ closed : \A y \in Outstanding \ closed' : x < y
          /\ \A x \in closed' \ closed : x \notin Range(stopChans')]_vars

\* C5: an executor whose stop signal is closed while it is in the middle of
\* an iteration runs the remaining steps of that iteration as it would have
\* without the signal (it leaves before the last step only when a step makes
\* the workflow return an error, as cancellation of the scope does, or when
\* a step panics), then
\* leaves at the top of its loop; no executor starts an iteration after its
\* stop signal was closed.
C5_StoppedExecutorFinishesIteration ==
    \A e \in Ids :
        /\ ~actors[e].again
        /\ (actors[e].pc = "exiting" /\ actors[e].sig >= 0 /\ actors[e].sig < NumSteps)
              => \/ actors[e].why \in {"err", "panic"}
                 \/ actors[e].why \in {"stop", "ctx"} /\ actors[e].ran = NumSteps

\* An executor signalled before the first step of its iteration returned has
\* run every step and left on its stop signal, the scope not cancelled.
C5_Witness ==
    \E e \in Ids :
        /\ actors[e].pc = "exiting"
        /\ actors[e].sig = 0
        /\ actors[e].why = "stop"
        /\ actors[e].ran = NumSteps
        /\ ~ctxDone

\* C6 as stated: at the moment RunWithProfile returns, ActiveActors() is 0.
C6_ActiveZeroAtReturn ==
    sup = "returned" => activeCount = 0

\* C6 as amended: when RunWithProfile returns, every stop signal has been
\* closed and the list is empty, but the executors have not been waited for:
\* ActiveActors() is 0 once every executor has run its exit handler to the
\* end, and until then it counts the executors that have not.
C6_ActiveZeroOnceAllLeft ==
    sup = "returned" =>
        /\ stopChans = <<>>
        /\ \A e \in SpawnedIds : e \in closed
        /\ activeCount = Cardinality({ e \in SpawnedIds : actors[e].pc # "gone" })
        /\ (\A e \in SpawnedIds : actors[e].pc = "gone") => activeCount = 0

\* The run has returned, executors were spawned, and all of them are gone.
C6_Witness ==
    /\ sup = "returned"
    /\ nextID >= 2
    /\ \A e \in SpawnedIds : actors[e].pc = "gone"
    /\ activeCount = 0

\* C7: once RunWithProfile has returned and the following Wait() has
\* returned, ActiveActors() reads 0, under every interleaving of the
\* executors' exits with the return of Wait().
C7_ActiveZeroAfterWait ==
    (sup = "returned" /\ waitPc = "returned") => activeCount = 0

----------------------------------------------------------------------------
(* Claims about the workflow's steps (SpecWorkflow) *)

\* C10: if variable substitution or JSON extraction fails in a step, exactly
\* one non-success Event is recorded for that step and no later step of the
\* same iteration is executed.
C10_TemplateFailureAbortsIteration ==
    \A j \in 1..Len(wf.events) :
        wf.events[j].Error \in {"substitute", "extract"}
        => /\ ~wf.events[j].Success
           /\ Cardinality({ k \in 1..Len(wf.events) :
                              wf.events[k].Step = wf.events[j].Step }) = 1
           /\ \A k \in 1..Len(wf.events) : wf.events[k].Step <= wf.events[j].Step

\* The step that Run's loop has just executed: a new Event is in the log.
StepTaken == Len(wf'.events) = Len(wf.events) + 1

LastEvent(w) == w.events[Len(w.events)]

\* C11: a step's extracted values are merged into the iteration's Variables
\* only if the step's Result is a success: after a non-success step the
\* Variables are exactly what they were before it, and after a success
\* exactly the variables of the step's extract rules have been set.
C11_ExtractMergedOnSuccessOnly ==
    [][StepTaken =>
         IF LastEvent(wf').Success
         THEN wf'.vars = [v \in VarNames |->
                            IF v \in steps[wf.i].Extract THEN wf.i ELSE wf.vars[v]]
         ELSE wf'.vars = wf.vars]_vars

\* A later step failed by status on a body that holds the path of one of its
\* rules, and the variable of that rule, set by an earlier step, still has
\* the earlier value.
C11_Witness ==
    /\ Len(wf.events) >= 2
    /\ LastEvent(wf).Error = "status"
    /\ wf.resp.Valid
    /\ \E v \in steps[Len(wf.events)].Extract \cap wf.resp.Paths :
         /\ wf.vars[v] # 0
         /\ wf.vars[v] < Len(wf.events)

\* C12: a step whose response has a failing status is recorded as a
\* non-success Event and does not end the iteration: Run goes on to the next
\* step without an error, and a Run whose steps fail by status or extraction
\* only executes every step and returns nil.
C12_StatusFailureContinues ==
    /\ [][(StepTaken /\ LastEvent(wf').Error = "status")
            => /\ ~LastEvent(wf').Success
               /\ wf'.pc = "loop"
               /\ wf'.i = wf.i + 1
               /\ ~wf'.err]_vars
    /\ []((wf.pc = "done"
           /\ \A j \in 1..Len(wf.events) : wf.events[j].Error \in {"", "status", "extract"})
          => (~wf.err /\ Len(wf.events) = Len(steps)))

\* A finished Run whose first step failed by status: every step has its
\* Event and Run returned nil.
C12_Witness ==
    /\ wf.pc = "done"
    /\ ~wf.err
    /\ Len(wf.events) = Len(steps)
    /\ Len(steps) >= 2
    /\ wf.events[1].Error = "status"
    /\ ~wf.events[1].Success

----------------------------------------------------------------------------
(* Claims about the Runner (SpecRunner) *)

\* The invocations of the workflow that were handed the real reporter.
RealCalls(r) == { i \in 1..Len(r.calls) : r.calls[i].rep = "real" }

\* C13: once RunIteration has returned ErrMaxIterationsReached (M > 0), the
\* workflow has been invoked exactly M times, errors or not; at most
\* max(0, M - W) invocations were handed the real reporter, and the first W
\* were handed the discarding one.
C13_RunnerRunsExactlyMax ==
    runner.ret = "max" =>
        LET M == runner.config.MaxIterations
            W == runner.config.WarmupIters
        IN  /\ M > 0
            /\ Len(runner.calls) = M
            /\ runner.iteration = M
            /\ Cardinality(RealCalls(runner)) <= Max(0, M - W)
            /\ \A i \in 1..Min(W, M) : runner.calls[i].rep = "null"

C13_Witness ==
    /\ runner.ret = "max"
    /\ runner.config.MaxIterations >= 2
    /\ runner.config.WarmupIters = 1
    /\ \E i \in 1..Len(runner.calls) : runner.calls[i].err
    /\ Cardinality(RealCalls(runner)) = runner.config.MaxIterations - 1

----------------------------------------------------------------------------
(* Claims about the classic spawn (SpecClassic) and about panics (SpecCoord) *)

\* C14: a classic spawn of N executors with maxIterations = M > 0: when
\* Wait() has returned with the scope not cancelled and no workflow error or
\* panic, every executor has run exactly M iterations and left by its cap;
\* and Wait() does return.
C14_ClassicRunsExactlyMaxEach ==
    /\ [](  (/\ waitPc = "returned"
             /\ ~ctxDone
             /\ config.MaxIterations > 0
             /\ \A e \in 1..spawnCount : actors[e].why \notin {"err", "panic"})
         => \A e \in 1..spawnCount : /\ actors[e].pc = "gone"
                                     /\ actors[e].why = "max"
                                     /\ actors[e].iter = config.MaxIterations)
    /\ <>(config.MaxIterations = 0 \/ waitPc = "returned")

C14_Witness ==
    /\ waitPc = "returned"
    /\ ~ctxDone
    /\ config.MaxIterations > 0
    /\ spawnCount >= 2
    /\ \A e \in 1..spawnCount : actors[e].why = "max" /\ actors[e].iter = config.MaxIterations

\* The steps of the other executors, and the signals to them, are left alone.
OthersUntouched(e) ==
    /\ \A f \in Ids \ {e} : actors'[f] = actors[f]
    /\ closed' = closed
    /\ stopChans' = stopChans
    /\ ctxDone' = ctxDone

C16_ActiveActorsCountsLive ==
    activeCount = Cardinality({ e \in Ids : actors[e].pc \notin {"none", "gone"} })

----------------------------------------------------------------------------
(* Claims about the Collector (SpecCollector) *)

\* C17: a producer that has entered Report can always take its select and
\* leave: whatever the queue holds, wherever the consumer is, and however
\* many producers are in Report, the select is never blocked; while the
\* channel is open it ends in a send or in the default case.
C17_ReportNeverBlocks ==
    \A p \in Producers :
        prod[p].pc = "select" =>
            /\ ENABLED Report_Select(p)
            /\ ~coll.chClosed => SelectOutcome(coll) \in {"sent", "default"}

\* Every producer is in Report with the queue full and the consumer not
\* receiving, after an earlier Report has returned through the default case.
C17_Witness ==
    /\ \A p \in Producers : prod[p].pc = "select"
    /\ Len(coll.ch) = QueueCap
    /\ coll.events = <<>>
    /\ coll.pc = "recv"
    /\ rlog.shed # {}

\* C18: after Close() has returned, with every Report call returned, the
\* number of Report calls is len(Events()) + DroppedEvents().
C18_ReportsLoggedOrCounted ==
    (/\ Len(closer.outs) > 0
     /\ closer.outs[1] = "returned"
     /\ \A p \in Producers : prod[p].pc = "idle")
        => rlog.issued = Len(coll.events) + DroppedEvents(coll)

\* C19: when Close() has returned, the queue is empty and every event that
\* Report had placed in the queue before Close() was called is in the log.
C19_CloseDrainsQueue ==
    (Len(closer.outs) > 0 /\ closer.outs[1] = "returned")
        => /\ closer.queued \subseteq Range(coll.events)
           /\ coll.ch = <<>>
           /\ coll.held = 0

\* Close() has returned after being called with events still in the queue.
C19_Witness ==
    /\ closer.outs = <<"returned">>
    /\ closer.pending > 0
    /\ closer.queued # {}
    /\ Len(coll.events) >= 2

\* C20: no call of Close() panics, the second no more than the first.
C20_CloseTwiceIsSafe ==
    \A i \in 1..Len(closer.outs) : closer.outs[i] # "panic"

----------------------------------------------------------------------------
(* Claims about the rate ceiling (SpecLimiter) *)

\* C22: with the rate held at r > 0, the permits that fall due in a window,
\* over all callers, are at most r plus one per token time of the window
\* (r per second).
C22_WindowWithinBurstPlusRate ==
    win.open => win.grants <= lim.limit + win.refills

\* A window in which the burst was used up and every token time gave a permit
\* to a caller that was waiting for it.
C22_Witness ==
    /\ win.open
    /\ lim.limit >= 2
    /\ win.refills = MaxWindow
    /\ win.grants = lim.limit + win.refills

----------------------------------------------------------------------------
(* Claims about the rate of the phases (SpecRate) *)

\* C23: every tick pushes the RPS of the current phase to the limiter: once
\* the tick's SetRate has returned the limiter holds that RPS, and in a phase
\* of RPS 0 a caller of Wait that reads the limit returns nil at once,
\* whatever the bucket holds.
C23_TickPushesPhaseRate ==
    /\ [](HasLimiter /\ sup = "running" /\ now >= 1 /\ setRate.pc = "idle"
            => /\ lim.limit = phases[CurrentPhaseIndex(phases, now) + 1].RPS
               /\ lim.burst = phases[CurrentPhaseIndex(phases, now) + 1].RPS)
    /\ [][\A e \in Waiters :
            ( /\ HasLimiter /\ sup = "running" /\ now >= 1
              /\ phases[CurrentPhaseIndex(phases, now) + 1].RPS = 0
              /\ wt[e].pc = "read" /\ wt'[e].pc # "read" )
            => wt'[e].pc = "done" /\ wt'[e].res = "nil"]_vars

\* The profile has moved from a phase with a rate into a phase of RPS 0, the
\* tick has pushed it, and a caller has come back from Wait without a token
\* while the bucket is empty.
C23_Witness ==
    /\ sup = "running" /\ now >= 1 /\ setRate.pc = "idle"
    /\ CurrentPhaseIndex(phases, now) = 1
    /\ phases[1].RPS > 0
    /\ phases[2].RPS = 0
    /\ lim.limit = 0
    /\ lim.tokens = 0
    /\ \E e \in Waiters : wt[e].pc = "done" /\ wt[e].res = "nil"

\* C24 as stated: a phase of RPS 0 keeps the rate of the nearest earlier
\* phase that set one, and is unlimited only if there is none.
C24_ZeroRpsInheritsPreviousRate ==
    ( /\ HasLimiter /\ sup = "running" /\ now >= 1 /\ setRate.pc = "idle"
      /\ phases[CurrentPhaseIndex(phases, now) + 1].RPS = 0 )
    => LET i == CurrentPhaseIndex(phases, now) + 1
           set == { j \in 1..(i - 1) : phases[j].RPS > 0 }
       IN  IF set = {} THEN lim.limit = 0
           ELSE lim.limit = phases[CHOOSE j \in set : \A k \in set : k <= j].RPS

\* C24, amended: a phase of RPS 0 inherits nothing: from the supervisor's
\* first tick in it the limiter is unlimited (limit and burst 0), whatever
\* an earlier phase set.  Only before the first tick of the run does the
\* limiter hold the rate of another phase: the first non-zero RPS of the
\* profile, also when the first phase has RPS 0.
C24_ZeroRpsIsUnlimited ==
    /\ ( /\ HasLimiter /\ sup = "running" /\ now >= 1 /\ setRate.pc = "idle"
         /\ phases[CurrentPhaseIndex(phases, now) + 1].RPS = 0 )
       => lim.limit = 0 /\ lim.burst = 0
    /\ (HasLimiter /\ now = 0)
       => \E i \in 1..Len(phases) :
             /\ phases[i].RPS > 0
             /\ \A j \in 1..(i - 1) : phases[j].RPS = 0
             /\ lim.limit = phases[i].RPS

\* A phase of RPS 0 that follows a phase with a rate, its first tick done:
\* the limiter is unlimited.
C24_Witness ==
    /\ sup = "running" /\ now >= 1 /\ setRate.pc = "idle"
    /\ CurrentPhaseIndex(phases, now) = 1
    /\ phases[1].RPS = MaxRate
    /\ phases[2].RPS = 0
    /\ lim.limit = 0
    /\ lim.burst = 0

----------------------------------------------------------------------------
(* Claims about the end of a profile run (SpecStop) *)

\* C25: once the scope is cancelled or the profile is complete the supervisor
\* returns, and when it has returned every stop signal it handed out is
\* closed and none is outstanding; from then on an executor that comes to
\* the top of its loop leaves, and Wait() returns in the end.
C25_StopAllThenWaitReturns ==
    /\ [](sup = "returned"
            => stopChans = <<>> /\ \A e \in 1..nextID : e \in closed)
    /\ [][\A e \in Ids :
            (sup = "returned" /\ actors[e].pc = "select" /\ actors'[e].pc # "select")
            => actors'[e].pc \in {"exiting", "gone"}]_vars
    /\ ((ctxDone \/ IsComplete(phases, now)) ~> sup = "returned")
    /\ (sup = "returned" ~> waitPc = "returned")

\* Wait() has returned after a cancellation that found two executors
\* running; both left on their stop signal or on the scope.
C25_Witness ==
    /\ waitPc = "returned"
    /\ ctxDone
    /\ \E e1 \in Ids : \E e2 \in Ids :
          /\ e1 # e2
          /\ actors[e1].why \in {"stop", "ctx"}
          /\ actors[e2].why \in {"stop", "ctx"}

----------------------------------------------------------------------------
(* Claims about the Events of the log (SpecWorkflow) *)

\* C26: every Event reported, from a step that succeeded, failed by status,
\* by transport, by substitution or by extraction, or from a panic, has
\* Success true if and only if its Error is empty and its StatusCode is
\* below 400.
C26_SuccessIffNoErrorAndStatusBelow400 ==
    \A j \in 1..Len(wf.events) :
        wf.events[j].Success
            <=> (wf.events[j].Error = "" /\ wf.events[j].StatusCode < 400)

\* A log with the Event of a step whose extraction failed on a response of
\* status 200, followed by the Event of a panic.
C26_Witness ==
    /\ Len(wf.events) >= 2
    /\ wf.events[1].Error = "extract"
    /\ wf.events[1].StatusCode = 200
    /\ ~wf.events[1].Success
    /\ LastEvent(wf) = PanicEvent

----------------------------------------------------------------------------
(* Claims about the construction of the PhaseManager (SpecConstruct) *)

\* C27: no PhaseManager holds a phase with a concurrency (actors,
\* startActors or endActors) below 0: a phase list with such a value is
\* rejected at construction.
C27_NoNegativeConcurrencyHeld ==
    \A i \in 1..Len(phases) :
        /\ phases[i].Actors >= 0
        /\ phases[i].StartActors >= 0
        /\ phases[i].EndActors >= 0

----------------------------------------------------------------------------
(* Claims about main (SpecMain) *)

\* C28: a run that ended on the scope cancelled by SIGINT or SIGTERM is
\* followed by the summary and by exit code 0, whatever the thresholds say
\* of the partial metrics.
C28_InterruptExitsZero ==
    (mn.pc = "exited" /\ mn.byCancel) => (mn.printed /\ mn.exit = ExitSuccess)

\* An interrupted run whose partial metrics fail a threshold: the summary
\* is printed and the exit code is 0.
C28_Witness ==
    /\ mn.pc = "exited"
    /\ mn.byCancel
    /\ mn.checked
    /\ ~mn.passed
    /\ mn.printed
    /\ mn.exit = ExitSuccess

\* C29: the aggregate Passed is true if and only if every recorded result
\* passed, at every point of Check and after it; with no result recorded it
\* is true.
C29_PassedIsAndOfResults ==
    /\ mn.passed <=> (\A j \in 1..Len(mn.results) : mn.results[j].Passed)
    /\ mn.results = <<>> => mn.passed

\* Check has ended with a result that passed recorded after one that failed:
\* the aggregate is a failure.
C29_Witness ==
    /\ mn.pc = "print"
    /\ Len(mn.results) >= 2
    /\ ~mn.results[1].Passed
    /\ mn.results[Len(mn.results)].Passed
    /\ ~mn.passed

----------------------------------------------------------------------------
(* Claims about the executors' ids (SpecSpawn) *)

\* C30: every executor started has a positive id that no other executor of
\* the Coordinator has or had, and no id taken for an executor about to
\* start is one of them, whatever the interleaving of the spawning callers.
C30_IdsPositiveAndUnique ==
    /\ \A i \in 1..Len(sp.issued) :
         /\ sp.issued[i] > 0
         /\ \A j \in 1..Len(sp.issued) : i # j => sp.issued[i] # sp.issued[j]
    /\ \A s \in 1..NumSpawners :
         sp.pc[s] = "added"
         => /\ sp.id[s] > 0
            /\ \A i \in 1..Len(sp.issued) : sp.issued[i] # sp.id[s]
            /\ \A t \in 1..NumSpawners :
                 (t # s /\ sp.pc[t] = "added") => sp.id[t] # sp.id[s]

\* Two callers took their ids one after the other and started their
\* executors in the other order; the first of them has left and a third
\* executor was started after that.
C30_Witness ==
    /\ Len(sp.issued) >= 3
    /\ sp.issued[1] > sp.issued[2]
    /\ sp.issued[1] \notin sp.live
    /\ sp.issued[3] \in sp.live

----------------------------------------------------------------------------
(* Claims about the executor pool of a profile run (SpecCoord) *)

C32_StopListMatchesLiveExecutors ==
    (sup = "running" /\ ~ctxDone) =>
        /\ Len(stopChans) = Cardinality(Outstanding)
        /\ \A e \in Range(stopChans) : ~Left(e)

\* C33: a tick that closes stop signals leaves at least the target number of
\* live executors unsignalled, also when executors signalled by an earlier
\* tick are still finishing their iteration (no executor has left by itself,
\* the scope is not cancelled).
C33_DownscaleKeepsTargetUnsignalled ==
    [][(/\ sup = "running"
        /\ sup' = "running"
        /\ closed' # closed
        /\ ~ctxDone
        /\ \A e \in Ids : actors[e].why \notin {"err", "panic", "max"}
                           /\ actors[e].pc # "recover")
       => Cardinality(Outstanding') >= TargetActorsAt(phases, now')]_vars

\* C34: with maxIterations = M the iterations of a profile run number at most
\* M times the peak target of the profile.  An executor that left by its cap
\* has run exactly M iterations (Runner.RunIteration returns
\* ErrMaxIterationsReached when iteration >= M and not before), so the
\* executors that left by their cap alone account for M iterations each.
C34_IterationsWithinCapTimesPeak ==
    LET M == config.MaxIterations
        peak == CHOOSE m \in 0..MaxTarget :
                    /\ \E i \in 1..Len(phases) : PhaseMax(phases[i]) = m
                    /\ \A i \in 1..Len(phases) : PhaseMax(phases[i]) <= m
    IN  M > 0 =>
          M * Cardinality({ e \in SpawnedIds : actors[e].why = "max" }) <= M * peak

----------------------------------------------------------------------------
(* Claims about the rate-limited executors of a profile run (SpecThrottle) *)

\* C35: an executor that is asleep in RateLimiter.Wait at the moment its
\* stop signal is closed (a downscale or the profile's completion) executes
\* no step afterwards: as long as the scope is not cancelled (a cancelled
\* scope ends Wait with an error), it has no step of an iteration behind it.
C35_StoppedInWaitRunsNoStep ==
    \A e \in Ids :
        (actors[e].asleep /\ ~ctxDone) => actors[e].ran = 0

----------------------------------------------------------------------------
(* Claims about short profiles (SpecShort) *)

\* C36: for a profile whose first phase has a positive duration and a
\* positive target, when the supervisor returns because the profile is
\* complete (the scope not cancelled) at least one executor has been
\* spawned.
C36_FirstPhaseSpawnsAnExecutor ==
    (/\ sup = "returned"
     /\ ~ctxDone
     /\ phases[1].Duration > 0
     /\ TargetActorsAt(phases, 0) > 0)
    => nextID >= 1

----------------------------------------------------------------------------
(* Claims about Report and Close (SpecCollector) *)

\* C37: no Report panics, whether it runs before, during or after Close();
\* and once a Close() has returned the log does not change any more, so
\* Events() returns the same sequence on every call.
C37_ReportAfterCloseIsHarmless ==
    /\ [](\A p \in Producers : prod[p].out # "panic")
    /\ [][(\E i \in 1..Len(closer.outs) : closer.outs[i] = "returned")
              => coll'.events = coll.events]_vars

----------------------------------------------------------------------------
(* Claims about main's exit code and the threshold verdict (SpecMain) *)

\* C38: when the signal was delivered after the run had finished and its
\* metrics were computed, a failed threshold verdict gives the exit code
\* ExitThresholdFailed.
C38_LateInterruptKeepsThresholdExit ==
    (/\ mn.pc = "exited"
     /\ mn.afterRun
     /\ mn.checked
     /\ ~mn.passed)
    => mn.exit = ExitThresholdFailed

\* C39: in a run that recorded no event, a failure-rate result is a pass, so
\* the failure-rate check does not make the verdict Fail.
C39_NoEventsPassFailureRate ==
    \A i \in 1..Len(mn.results) :
        (mn.total = 0 /\ mn.results[i].Name = "rate") => mn.results[i].Passed

----------------------------------------------------------------------------
(* Claims about the closing of stop signals (SpecCoord) *)

\* C40: no stop signal is closed twice.  stopActors and stopAllActors close
\* only channels that are in the coordinator's list, so it is enough that,
\* under every interleaving of downscale ticks, completion and cancellation,
\* no channel of the list is closed already and none is listed twice.
C40_NoStopSignalClosedTwice ==
    \A i \in 1..Len(stopChans) :
        /\ stopChans[i] \notin closed
        /\ \A j \in 1..Len(stopChans) : i # j => stopChans[i] # stopChans[j]

\* A downscale tick has closed signals, others are still in the list, and
\* the scope is cancelled: stopAllActors is about to close the rest.
C40_Witness ==
    /\ sup = "running"
    /\ ctxDone
    /\ closed # {}
    /\ stopChans # <<>>
    /\ \E e \in closed : ~Left(e)

====
